---- MODULE Spec2Model ----
(***************************************************************************)
(* State-machine model of the scene editor's run-mode engine               *)
(* (src/src/components/Scene.tsx and the properties panel that gates its   *)
(* handlers).                                                              *)
(*                                                                         *)
(* Units.  Positions are <<x, y, z>> in millimetres.  A lift position is   *)
(* an integer number of 1/1100 of the full travel, so that every constant  *)
(* of the source is an integer: 1 -> 1100, 0.02 -> 22, 0.05 -> 55,         *)
(* 0.01 -> 11, 0.5 -> 550, 1/2.2 -> 500; the platform height 2.2 m * lift  *)
(* is then 2 mm per unit.                                                  *)
(*                                                                         *)
(* React.  A handler called from the user interface runs against the       *)
(* state of the last render, which React flushes after every discrete      *)
(* event, so such a handler is one atomic action on the current state.     *)
(* A timer or tween callback keeps the values its handler closed over;     *)
(* they are stored in the timer / tween record (fields starting with c).   *)
(***************************************************************************)
EXTENDS Integers, Sequences, FiniteSets, TLC

\* ---------------------------------------------------------------- bounds
MaxCargo    == 2   \* cargo items dispatched over a behaviour
MaxDrives   == 1   \* manual lift drives started over a behaviour
MaxFlights  == 2   \* takeOff / rise / descend commands over a behaviour
MaxRuns     == 1   \* edit -> run transitions over a behaviour
MaxFill     == 5   \* cargo items dispatched over a behaviour that fills a station
MaxDetours  == 1   \* takeOff commands, and cargo items, of a behaviour with one unloading
MaxOverlap  == 2   \* manual lift drives started over a behaviour of overlapping drives
MaxEdits    == 1   \* place / transform / rename / type / binding / delete commands
MaxBindings == 3   \* the same commands over a behaviour of binding changes
MaxAssets   == 3   \* the same commands over a behaviour of creations and deletions
MaxToggles  == 3   \* entries into run mode over a behaviour of mode toggles
MaxLoads    == 1   \* cargo dispatched over a behaviour that leaves run mode
                   \* over a behaviour
TweenSteps  == 2   \* animation frames a tween of non-zero duration takes

\* ------------------------------------------------------ program constants
LiftTop        == 1100    \* liftPosition 1
LiftStep       == 22      \* 0.02 per interval tick
LevelTolerance == 55      \* 0.05
StatusEpsilon  == 11      \* 0.01
Level2Manual   == 500     \* (0 + 1) / 2.2
Level2Store    == 550     \* 0.5
FlightHeight   == 15000   \* 15 m
NearRadius     == 2000    \* 2 m

None == "none"

Landing == "landing"   \* stationType '起降站点'
Hover   == "hover"     \* stationType '悬停站点'

NoShelf == <<FALSE, FALSE, FALSE, FALSE>>

\* ------------------------------------------------------------ array helpers
\* Array.prototype.findIndex on the id field; 0 stands for -1.
FindIndex(arr, id) ==
  IF \E i \in 1..Len(arr) : arr[i].id = id
  THEN CHOOSE i \in 1..Len(arr) : arr[i].id = id /\ \A j \in 1..(i-1) : arr[j].id # id
  ELSE 0

Has(arr, id) == FindIndex(arr, id) # 0

Find(arr, id) == arr[FindIndex(arr, id)]

Ids(arr) == {arr[i].id : i \in 1..Len(arr)}

\* arr.filter(e => e.id !== id)
RECURSIVE FilterOut(_, _)
FilterOut(arr, id) ==
  IF arr = <<>> THEN <<>>
  ELSE IF Head(arr).id = id THEN FilterOut(Tail(arr), id)
       ELSE <<Head(arr)>> \o FilterOut(Tail(arr), id)

\* arr.map(e => ({...e, selected: e.id === id && sel}))
MarkSelected(arr, id, sel) ==
  [i \in 1..Len(arr) |-> [arr[i] EXCEPT !.selected = (arr[i].id = id /\ sel)]]

Count(occ) == Cardinality({i \in 1..Len(occ) : occ[i]})

\* ------------------------------------------------------------------ state
VARIABLES
  drones,                  \* DroneData[]
  dockingStations,         \* DockingStationData[]
  stationPoints,           \* StationPointData[]
  cargos,                  \* CargoData[]
  selectedObjectId,        \* string | null
  selectedObjectType,      \* 'drone' | 'dockingStation' | 'stationPoint' | null
  showPanel,
  isEditingName,
  isRunning,
  originalDrones,          \* the snapshot taken by the edit -> run transition
  originalDockingStations,
  originalStationPoints,
  refDroneId,              \* animationRef.current.selectedDroneId
  panel,                   \* the fields of propertiesPanelData the handlers are gated on
  tweens,                  \* the TWEEN group, in insertion order
  timers,                  \* pending setTimeout / setInterval callbacks
  limit,                   \* the bounds in force in this behaviour
  entered,                 \* history: the three collections just before the last EnterRun,
                           \* selection flags cleared
  issued,                  \* history: the store jobs handleRemoveCargo has started
  used,                    \* how much of each bound the behaviour has consumed
  assetIdCounter,          \* the next asset sequence number of a docking station
  droneAssetIdCounter,     \* ... of a drone
  stationPointIdCounter,   \* ... of a waypoint
  ever,                    \* history: kind, id and numbers of every entity that ever existed
  saverRunning,            \* isRunning as the clean-up of the final-save effect captured it
  writes,                  \* history: the modes in which the scene was written to localStorage
  lastOp                   \* history: the handler or callback that took the last step
                           \* (for ExitRun followed by the one before it)

store == <<drones, dockingStations, stationPoints, cargos>>
sel   == <<selectedObjectId, selectedObjectType, showPanel>>
orig  == <<originalDrones, originalDockingStations, originalStationPoints>>
counters == <<assetIdCounter, droneAssetIdCounter, stationPointIdCounter, ever>>
watch == <<limit, entered, issued, counters>>
vars  == <<drones, dockingStations, stationPoints, cargos, selectedObjectId,
           selectedObjectType, showPanel, isEditingName, isRunning,
           originalDrones, originalDockingStations, originalStationPoints,
           refDroneId, panel, tweens, timers, limit, entered, issued, used, lastOp,
           assetIdCounter, droneAssetIdCounter, stationPointIdCounter, ever,
           saverRunning, writes>>

\* ------------------------------------------------------------- entities
\* modelNumber stands for the sequence number, the last five digits of the
\* asset id: String(n).padStart(5, '0') and parseInt give n back below 100000.
NewDrone(id, pos, name, number) ==
  [id |-> id, position |-> pos, selected |-> FALSE, hovering |-> FALSE,
   propellersActive |-> FALSE, cargoId |-> None, modelName |-> name, modelNumber |-> number]

NewStation(id, pos, name, bound, number) ==
  [id |-> id, position |-> pos, selected |-> FALSE, liftPosition |-> LiftTop,
   boundStationId |-> bound, shelfOccupancy |-> NoShelf, modelName |-> name,
   modelNumber |-> number]

NewPoint(id, pos, name, type, number, stationNumber) ==
  [id |-> id, position |-> pos, selected |-> FALSE, stationType |-> type,
   modelName |-> name, modelNumber |-> number, stationNumber |-> stationNumber]

\* ------------------------------------------------------ properties panel
\* The lift status text of updatePropertiesPanel, as the class the panel's
\* getLiftStatus reads back from it, with the percentage of the moving text.
LiftStatusText(l) ==
  IF l = 0 THEN <<"bottom", 0>>
  ELSE IF l = LiftTop THEN <<"top", 0>>
  ELSE IF (IF l < 0 THEN -l ELSE l) < StatusEpsilon THEN <<"bottom", 0>>
  ELSE IF (IF l - LiftTop < 0 THEN LiftTop - l ELSE l - LiftTop) < StatusEpsilon
       THEN <<"top", 0>>
  ELSE <<"moving", (l * 100 + (LiftTop \div 2)) \div LiftTop>>

EmptyPanel ==
  [ptype |-> None, lift |-> <<None, 0>>, capacity |-> 0, moving |-> FALSE,
   hasHeight |-> FALSE, height |-> 0]

\* updatePropertiesPanel(id, type) evaluated against the arrays D, S, P
\* (the current ones for a user-interface call, closed-over ones for a timer).
\* The waypoint panel has type null in the source; ptype "stationPoint" tells
\* its item set apart, the buttons only ask for "drone" and "dockingStation".
PanelFor(old, id, type, D, S, P) ==
  IF type = "drone" /\ Has(D, id) THEN
    [ptype |-> "drone", lift |-> <<None, 0>>, capacity |-> 0, moving |-> FALSE,
     hasHeight |-> TRUE, height |-> Find(D, id).position[2]]
  ELSE IF type = "dockingStation" /\ Has(S, id) THEN
    [ptype |-> "dockingStation",
     lift |-> LiftStatusText(Find(S, id).liftPosition),
     capacity |-> Count(Find(S, id).shelfOccupancy),
     moving |-> FALSE, hasHeight |-> FALSE, height |-> 0]
  ELSE IF type = "stationPoint" /\ Has(P, id) THEN
    [ptype |-> "stationPoint", lift |-> <<None, 0>>, capacity |-> 0,
     moving |-> FALSE, hasHeight |-> FALSE, height |-> 0]
  ELSE old

\* updatePanelHeight(height, status): rewrites the items labelled height and
\* status, which only the drone panel has among the fields tracked here.
UpdatePanelHeight(old, h, mv) ==
  IF old.ptype = "drone"
  THEN [old EXCEPT !.height = (IF old.hasHeight THEN h ELSE 0), !.moving = mv]
  ELSE old

\* ------------------------------------------------------------------- Init
\* The scene a project is loaded with (load effect, Scene.tsx 664-770):
\* nothing selected, no cargo, edit mode.  Two drones, two waypoints and two
\* docking stations.  s1 is bound to w2, s2 is unbound.  The origin of d1 lies
\* within NearRadius of both waypoints, the origin of d2 and w2 itself only of w2.
Origin1 == <<9500, 0, 0>>
Origin2 == <<12500, 0, 0>>
PosW1   == <<8000, 0, 0>>
PosW2   == <<11000, 0, 0>>
PosS1   == <<20000, 0, 0>>
PosS2   == <<40000, 0, 0>>

\* the default names: the kind followed by the length of its array plus one
DroneNames   == <<"drone1", "drone2", "drone3", "drone4", "drone5", "drone6">>
StationNames == <<"station1", "station2", "station3", "station4", "station5", "station6">>
PointNames   == <<"point1", "point2", "point3", "point4", "point5", "point6">>

Scene ==
  [drones   |-> << NewDrone("d1", Origin1, DroneNames[1], 1),
                   NewDrone("d2", Origin2, DroneNames[2], 2) >>,
   stations |-> << NewStation("s1", PosS1, StationNames[1], "w2", 1),
                   NewStation("s2", PosS2, StationNames[2], None, 2) >>,
   points   |-> << NewPoint("w1", PosW1, PointNames[1], Landing, 1, 1),
                   NewPoint("w2", PosW2, PointNames[2], Hover, 2, 2) >>]

NoUse == [cargo |-> 0, drives |-> 0, flights |-> 0, runs |-> 0, placed |-> 0, edits |-> 0]

Limits ==
  [cargo |-> MaxCargo, drives |-> MaxDrives, flights |-> MaxFlights, runs |-> MaxRuns,
   edits |-> MaxEdits]

\* Math.max(...arr.map(e => sequence number of e.modelNumber), 0)
MaxNumber(arr) ==
  IF arr = <<>> THEN 0
  ELSE LET N == {arr[i].modelNumber : i \in 1..Len(arr)}
       IN CHOOSE n \in N : \A m \in N : m <= n

\* the counter effect: Math.max(maxIdNum + 1, prevCounter)
CounterAfter(prev, arr) == IF MaxNumber(arr) + 1 > prev THEN MaxNumber(arr) + 1 ELSE prev

EverOf(kind, arr) ==
  {[kind |-> kind, id |-> arr[i].id, modelNumber |-> arr[i].modelNumber,
    stationNumber |-> IF kind = "stationPoint" THEN arr[i].stationNumber ELSE 0] :
     i \in 1..Len(arr)}

\* the state after the saved scene with the docking stations S is loaded
LoadedWith(S) ==
  /\ saverRunning = FALSE
  /\ writes = {}
  /\ assetIdCounter = CounterAfter(1, S)
  /\ droneAssetIdCounter = CounterAfter(1, Scene.drones)
  /\ stationPointIdCounter = CounterAfter(1, Scene.points)
  /\ ever = EverOf("drone", Scene.drones) \cup EverOf("dockingStation", S)
              \cup EverOf("stationPoint", Scene.points)
  /\ drones = Scene.drones
  /\ dockingStations = S
  /\ stationPoints = Scene.points
  /\ cargos = <<>>
  /\ selectedObjectId = None
  /\ selectedObjectType = None
  /\ showPanel = FALSE
  /\ isEditingName = FALSE
  /\ isRunning = FALSE
  /\ originalDrones = <<>>
  /\ originalDockingStations = <<>>
  /\ originalStationPoints = <<>>
  /\ refDroneId = None
  /\ panel = EmptyPanel
  /\ tweens = <<>>
  /\ timers = {}
  /\ entered = <<>>
  /\ issued = <<>>
  /\ used = NoUse
  /\ lastOp = <<"init">>

Loaded == LoadedWith(Scene.stations)

Init ==
  /\ Loaded
  /\ limit = Limits

Types == {"drone", "dockingStation", "stationPoint"}

ArrayOf(type) ==
  IF type = "drone" THEN drones
  ELSE IF type = "dockingStation" THEN dockingStations
  ELSE stationPoints

\* ------------------------------------------------------------ persistence
\* the handlers that end with saveSceneToStorage / saveSceneDataDirectly
SavingOps ==
  {"Select", "ClosePanel", "DeleteKey", "Place", "Transform", "Rename",
   "StationTypeChange", "StationBindingChange"}

\* saveSceneToStorage / saveSceneDataDirectly of a render whose isRunning was
\* running: nothing is written when it is set
Saves(running) == ~running

\* What a step does to the persistence store.  The handler's own save is made
\* by the render that handled the command.  The final-save effect depends on
\* the three arrays: a step that changes one of them runs the clean-up of the
\* render in which they last changed, that is saveSceneToStorage with that
\* render's isRunning and arrays, and the effect of the new render takes its
\* place.  (The effect also re-runs on a write of equal arrays; those writes
\* are left out.)
Persist ==
  LET changed == <<drones', dockingStations', stationPoints'>>
                   # <<drones, dockingStations, stationPoints>>
      cleanUp == /\ changed
                 /\ Len(drones) + Len(dockingStations) + Len(stationPoints) > 0
                 /\ Saves(saverRunning)
      handler == lastOp'[1] \in SavingOps /\ Saves(isRunning)
  IN /\ saverRunning' = (IF changed THEN isRunning' ELSE saverRunning)
     /\ writes' = (IF cleanUp \/ handler THEN writes \cup {isRunning'} ELSE writes)

\* -------------------------------------------------------------- selection
\* handleObjectSelect / updateSelectionState
Select(id, type) ==
  /\ Has(ArrayOf(type), id)
  /\ ~isEditingName
  /\ drones' = MarkSelected(drones, id, type = "drone")
  /\ dockingStations' = MarkSelected(dockingStations, id, type = "dockingStation")
  /\ stationPoints' = MarkSelected(stationPoints, id, type = "stationPoint")
  /\ selectedObjectId' = id
  /\ selectedObjectType' = type
  /\ panel' = PanelFor(panel, id, type, drones, dockingStations, stationPoints)
  /\ showPanel' = TRUE
  /\ lastOp' = <<"Select">>
  /\ UNCHANGED <<cargos, isEditingName, isRunning, orig, refDroneId, tweens, timers, used, watch>>
  /\ Persist

\* handleClosePanel
ClosePanel ==
  /\ showPanel
  /\ ~isEditingName
  /\ drones' = MarkSelected(drones, None, FALSE)
  /\ dockingStations' = MarkSelected(dockingStations, None, FALSE)
  /\ stationPoints' = MarkSelected(stationPoints, None, FALSE)
  /\ selectedObjectId' = None
  /\ selectedObjectType' = None
  /\ showPanel' = FALSE
  /\ lastOp' = <<"ClosePanel">>
  /\ UNCHANGED <<cargos, isEditingName, isRunning, orig, refDroneId, panel, tweens, timers, used, watch>>
  /\ Persist

\* ------------------------------------------------------------ mode toggle
\* handleToggleRunState, branch newState = true
EnterRun ==
  /\ ~isRunning
  /\ ~isEditingName
  /\ used.runs < limit.runs
  /\ originalDrones' = drones
  /\ originalDockingStations' = dockingStations
  /\ originalStationPoints' = stationPoints
  /\ showPanel' = (IF selectedObjectId = None THEN FALSE ELSE showPanel)
  /\ isRunning' = TRUE
  /\ refDroneId' = None
  /\ used' = [used EXCEPT !.runs = @ + 1]
  /\ entered' = <<MarkSelected(drones, None, FALSE), MarkSelected(dockingStations, None, FALSE),
                  MarkSelected(stationPoints, None, FALSE)>>
  /\ lastOp' = <<"EnterRun">>
  /\ UNCHANGED <<store, selectedObjectId, selectedObjectType, isEditingName, panel, tweens,
                 timers, limit, issued, counters>>
  /\ Persist

\* a restore that takes the first snapshot entry whatever the id
RestoreFirst(current, originals, isSel) ==
  [i \in 1..Len(current) |->
     [(IF originals # <<>> THEN originals[1] ELSE current[i])
        EXCEPT !.selected = (isSel /\ current[i].id = selectedObjectId)]]

\* prev.map(current => original ? {...original, selected} : {...current, selected})
RestoreFrom(current, originals, isSel) ==
  [i \in 1..Len(current) |->
     [(IF Has(originals, current[i].id) THEN Find(originals, current[i].id) ELSE current[i])
        EXCEPT !.selected = (isSel /\ current[i].id = selectedObjectId)]]

\* the drones additionally get cargoId: undefined
RestoreDrones(current, originals, isSel) ==
  [i \in 1..Len(current) |->
     [RestoreFrom(current, originals, isSel)[i] EXCEPT !.cargoId = None]]

\* an exit that leaves the cargo collection as it is
KeepCargos(C) == C

\* setCargos([])
DiscardCargos(C) == <<>>

\* handleToggleRunState, branch newState = false
ExitRun ==
  /\ isRunning
  /\ dockingStations' = RestoreFrom(dockingStations, originalDockingStations,
                                    selectedObjectType = "dockingStation")
  /\ drones' = RestoreDrones(drones, originalDrones, selectedObjectType = "drone")
  /\ stationPoints' = RestoreFrom(stationPoints, originalStationPoints,
                                  selectedObjectType = "stationPoint")
  /\ cargos' = DiscardCargos(cargos)
  /\ timers' = IF showPanel /\ selectedObjectId # None /\ selectedObjectType # None
               THEN timers \cup {[kind |-> "panelRefresh",
                                  found |-> Has(ArrayOf(selectedObjectType), selectedObjectId),
                                  shown |-> PanelFor(EmptyPanel, selectedObjectId,
                                                     selectedObjectType, drones,
                                                     dockingStations, stationPoints)]}
               ELSE timers
  /\ originalDrones' = <<>>
  /\ originalDockingStations' = <<>>
  /\ originalStationPoints' = <<>>
  /\ isRunning' = FALSE
  /\ refDroneId' = None
  /\ lastOp' = <<"ExitRun", lastOp[1]>>
  /\ UNCHANGED <<sel, isEditingName, panel, tweens, used, watch>>
  /\ Persist

\* an updater that reads the mode of the render instead of prev
StaleFlip(prev) == ~isRunning

\* the updater of setIsRunning: newState = !prev
Flip(prev) == ~prev

\* handleToggleRunState called twice before the component renders again: both
\* calls read the arrays, the snapshot and the selection of the same render,
\* and React runs the two updaters one after the other, the second on the
\* result of the first.  The call that enters run mode snapshots the arrays of
\* the render; the call that leaves it restores from the snapshot of the render,
\* clears the cargo, starts the panel timeout and empties the snapshot.  Each
\* updater hands its newState to isRunningCallback; lastOp keeps the two values.
ToggleTwice ==
  /\ ~isEditingName
  /\ used.runs < limit.runs
  /\ LET first  == Flip(isRunning)
         second == Flip(first)
     IN /\ isRunning' = second
        /\ lastOp' = <<"ToggleTwice", first, second>>
  /\ dockingStations' = RestoreFrom(dockingStations, originalDockingStations,
                                    selectedObjectType = "dockingStation")
  /\ drones' = RestoreDrones(drones, originalDrones, selectedObjectType = "drone")
  /\ stationPoints' = RestoreFrom(stationPoints, originalStationPoints,
                                  selectedObjectType = "stationPoint")
  /\ cargos' = DiscardCargos(cargos)
  /\ timers' = IF showPanel /\ selectedObjectId # None /\ selectedObjectType # None
               THEN timers \cup {[kind |-> "panelRefresh",
                                  found |-> Has(ArrayOf(selectedObjectType), selectedObjectId),
                                  shown |-> PanelFor(EmptyPanel, selectedObjectId,
                                                     selectedObjectType, drones,
                                                     dockingStations, stationPoints)]}
               ELSE timers
  \* the setters of the later call win
  /\ originalDrones' = IF isRunning THEN drones ELSE <<>>
  /\ originalDockingStations' = IF isRunning THEN dockingStations ELSE <<>>
  /\ originalStationPoints' = IF isRunning THEN stationPoints ELSE <<>>
  /\ showPanel' = (IF selectedObjectId = None THEN FALSE ELSE showPanel)
  /\ refDroneId' = None
  /\ used' = [used EXCEPT !.runs = @ + 1]
  /\ entered' = IF isRunning
                THEN <<MarkSelected(drones', None, FALSE),
                       MarkSelected(dockingStations', None, FALSE),
                       MarkSelected(stationPoints', None, FALSE)>>
                ELSE <<MarkSelected(drones, None, FALSE),
                       MarkSelected(dockingStations, None, FALSE),
                       MarkSelected(stationPoints, None, FALSE)>>
  /\ UNCHANGED <<selectedObjectId, selectedObjectType, isEditingName, panel, tweens, limit,
                 issued, counters>>
  /\ Persist

\* the 100 ms timeout of the run -> edit branch: updatePropertiesPanel of the
\* render that toggled, which finds the object in that render's arrays or
\* returns without writing
PanelRefresh(t) ==
  /\ t \in timers /\ t.kind = "panelRefresh"
  /\ panel' = IF t.found THEN t.shown ELSE panel
  /\ timers' = timers \ {t}
  /\ lastOp' = <<"PanelRefresh">>
  /\ UNCHANGED <<store, sel, isEditingName, isRunning, orig, refDroneId, tweens, used, watch>>
  /\ Persist

\* --------------------------------------------------------------- edit path
\* keydown effect: Delete / Backspace on the selected object
DeleteKey ==
  /\ ~isEditingName
  /\ selectedObjectId # None /\ selectedObjectType # None
  /\ used.edits < limit.edits
  /\ used' = [used EXCEPT !.edits = @ + 1]
  /\ drones' = IF selectedObjectType = "drone"
               THEN FilterOut(drones, selectedObjectId) ELSE drones
  /\ dockingStations' = IF selectedObjectType = "dockingStation"
                        THEN FilterOut(dockingStations, selectedObjectId)
                        ELSE dockingStations
  /\ stationPoints' = IF selectedObjectType = "stationPoint"
                      THEN FilterOut(stationPoints, selectedObjectId)
                      ELSE stationPoints
  /\ cargos' = IF selectedObjectType = "cargo"
               THEN FilterOut(cargos, selectedObjectId) ELSE cargos
  /\ selectedObjectId' = None
  /\ selectedObjectType' = None
  /\ showPanel' = FALSE
  /\ lastOp' = <<"DeleteKey">>
  /\ UNCHANGED <<isEditingName, isRunning, orig, refDroneId, panel, tweens, timers, watch>>
  /\ Persist

\* ids handed out by uuidv4: never one that was handed out before
NewIds == <<"n1", "n2", "n3", "n4">>
PlacePositions == {<<2000, 0, 0>>}
NewNames == {"renamed"}

\* handlePlaceModelInternal; the click that calls it is only listened for in
\* edit mode (ModelPreview, Scene.tsx 88-127; placementMode is '' in run mode)
Place(type, pos) ==
  /\ ~isRunning
  /\ ~isEditingName
  /\ used.edits < limit.edits
  /\ LET id == NewIds[used.placed + 1] IN
     /\ \/ /\ type = "drone"
           /\ drones' = Append(MarkSelected(drones, None, FALSE),
                 [NewDrone(id, pos, DroneNames[Len(drones) + 1], droneAssetIdCounter)
                    EXCEPT !.selected = TRUE])
           /\ dockingStations' = MarkSelected(dockingStations, None, FALSE)
           /\ stationPoints' = stationPoints
           /\ panel' = [EmptyPanel EXCEPT !.ptype = "drone"]
        \/ /\ type = "dockingStation"
           /\ dockingStations' = Append(MarkSelected(dockingStations, None, FALSE),
                 [NewStation(id, pos, StationNames[Len(dockingStations) + 1], None, assetIdCounter)
                    EXCEPT !.selected = TRUE])
           /\ drones' = MarkSelected(drones, None, FALSE)
           /\ stationPoints' = stationPoints
           /\ panel' = [EmptyPanel EXCEPT !.ptype = "dockingStation", !.lift = <<"top", 0>>]
        \/ /\ type = "stationPoint"
           /\ stationPoints' = Append(MarkSelected(stationPoints, None, FALSE),
                 [NewPoint(id, pos, PointNames[Len(stationPoints) + 1], Landing,
                          stationPointIdCounter, Len(stationPoints) + 1)
                    EXCEPT !.selected = TRUE])
           /\ drones' = MarkSelected(drones, None, FALSE)
           /\ dockingStations' = MarkSelected(dockingStations, None, FALSE)
           /\ panel' = [EmptyPanel EXCEPT !.ptype = "stationPoint"]
     /\ selectedObjectId' = id
     /\ selectedObjectType' = type
     /\ showPanel' = TRUE
     /\ used' = [used EXCEPT !.placed = @ + 1, !.edits = @ + 1]
     /\ lastOp' = <<"Place">>
  \* setXCounter(prev => prev + 1), then the counter effect on the new arrays
  /\ droneAssetIdCounter' =
        CounterAfter(droneAssetIdCounter + (IF type = "drone" THEN 1 ELSE 0), drones')
  /\ assetIdCounter' =
        CounterAfter(assetIdCounter + (IF type = "dockingStation" THEN 1 ELSE 0),
                     dockingStations')
  /\ stationPointIdCounter' =
        CounterAfter(stationPointIdCounter + (IF type = "stationPoint" THEN 1 ELSE 0),
                     stationPoints')
  /\ ever' = ever \cup EverOf("drone", drones') \cup EverOf("dockingStation", dockingStations')
                   \cup EverOf("stationPoint", stationPoints')
  /\ UNCHANGED <<cargos, isEditingName, isRunning, orig, refDroneId, tweens, timers,
                 limit, entered, issued>>
  /\ Persist

\* The page is loaded again, right after a click in edit mode has saved the
\* scene (updateSelectionState -> saveSceneToStorage): the component state
\* starts afresh, the load effect reads the saved collections and clears their
\* selection flags, and the counters start from useState(1).
Reload ==
  /\ ~isRunning
  /\ ~isEditingName
  /\ lastOp[1] = "Select"
  /\ timers = {} /\ tweens = <<>>
  /\ drones' = MarkSelected(drones, None, FALSE)
  /\ dockingStations' = MarkSelected(dockingStations, None, FALSE)
  /\ stationPoints' = MarkSelected(stationPoints, None, FALSE)
  /\ cargos' = <<>>
  /\ selectedObjectId' = None
  /\ selectedObjectType' = None
  /\ showPanel' = FALSE
  /\ originalDrones' = <<>>
  /\ originalDockingStations' = <<>>
  /\ originalStationPoints' = <<>>
  /\ refDroneId' = None
  /\ panel' = EmptyPanel
  /\ droneAssetIdCounter' = CounterAfter(1, drones)
  /\ assetIdCounter' = CounterAfter(1, dockingStations)
  /\ stationPointIdCounter' = CounterAfter(1, stationPoints)
  /\ lastOp' = <<"Reload">>
  /\ UNCHANGED <<isEditingName, isRunning, tweens, timers, limit, entered, issued, used, ever>>
  /\ Persist

\* arr.map(e => e.id === id ? {...e, position} : e)
SetPosition(arr, id, pos) ==
  [i \in 1..Len(arr) |-> IF arr[i].id = id THEN [arr[i] EXCEPT !.position = pos] ELSE arr[i]]

\* handleObjectTransform, called by the transform controls on the selected
\* object; the controls are detached and disabled in run mode (Scene.tsx
\* 289-293, 400).  Rotation and scale are written the same way as position.
Transform(pos) ==
  /\ ~isRunning
  /\ ~isEditingName
  /\ selectedObjectId # None /\ selectedObjectType \in Types
  /\ Has(ArrayOf(selectedObjectType), selectedObjectId)
  /\ used.edits < limit.edits
  /\ used' = [used EXCEPT !.edits = @ + 1]
  /\ drones' = IF selectedObjectType = "drone"
               THEN SetPosition(drones, selectedObjectId, pos) ELSE drones
  /\ dockingStations' = IF selectedObjectType = "dockingStation"
                        THEN SetPosition(dockingStations, selectedObjectId, pos)
                        ELSE dockingStations
  /\ stationPoints' = IF selectedObjectType = "stationPoint"
                      THEN SetPosition(stationPoints, selectedObjectId, pos)
                      ELSE stationPoints
  /\ panel' = PanelFor(panel, selectedObjectId, selectedObjectType,
                       drones, dockingStations, stationPoints)
  /\ lastOp' = <<"Transform">>
  /\ UNCHANGED <<cargos, sel, isEditingName, isRunning, orig, refDroneId, tweens, timers, watch>>
  /\ Persist

\* PropertiesPanel.startEditing
StartEditing ==
  /\ ~isRunning
  /\ showPanel
  /\ ~isEditingName
  /\ used.edits < limit.edits
  /\ used' = [used EXCEPT !.edits = @ + 1]
  /\ isEditingName' = TRUE
  /\ lastOp' = <<"StartEditing">>
  /\ UNCHANGED <<store, sel, isRunning, orig, refDroneId, panel, tweens, timers, watch>>
  /\ Persist

SetName(arr, id, name) ==
  [i \in 1..Len(arr) |-> IF arr[i].id = id THEN [arr[i] EXCEPT !.modelName = name] ELSE arr[i]]

\* PropertiesPanel.handleNameSave -> handleUpdateName
Rename(newName) ==
  /\ isEditingName
  /\ isEditingName' = FALSE
  /\ IF isRunning \/ selectedObjectId = None \/ selectedObjectType = None
     THEN UNCHANGED store
     ELSE /\ drones' = IF selectedObjectType = "drone"
                       THEN SetName(drones, selectedObjectId, newName) ELSE drones
          /\ dockingStations' = IF selectedObjectType = "dockingStation"
                                THEN SetName(dockingStations, selectedObjectId, newName)
                                ELSE dockingStations
          /\ stationPoints' = IF selectedObjectType = "stationPoint"
                              THEN SetName(stationPoints, selectedObjectId, newName)
                              ELSE stationPoints
          /\ cargos' = cargos
  /\ lastOp' = <<"Rename">>
  /\ UNCHANGED <<sel, isRunning, orig, refDroneId, panel, tweens, timers, used, watch>>
  /\ Persist

\* handleStationTypeChange; its select element is disabled in run mode
StationTypeChange(newType) ==
  /\ ~isRunning
  /\ ~isEditingName
  /\ selectedObjectId # None /\ selectedObjectType = "stationPoint"
  /\ showPanel /\ panel.ptype = "stationPoint"
  /\ stationPoints' = [i \in 1..Len(stationPoints) |->
        IF stationPoints[i].id = selectedObjectId
        THEN [stationPoints[i] EXCEPT !.stationType = newType] ELSE stationPoints[i]]
  /\ used.edits < limit.edits
  /\ used' = [used EXCEPT !.edits = @ + 1]
  /\ lastOp' = <<"StationTypeChange">>
  /\ UNCHANGED <<drones, dockingStations, cargos, sel, isEditingName, isRunning, orig,
                 refDroneId, panel, tweens, timers, watch>>
  /\ Persist

\* stationPoints.find(point => point.modelName === name)
FindByName(arr, name) ==
  IF \E i \in 1..Len(arr) : arr[i].modelName = name
  THEN arr[CHOOSE i \in 1..Len(arr) :
             arr[i].modelName = name /\ \A j \in 1..(i-1) : arr[j].modelName # name].id
  ELSE None

\* a check that lets every binding through
NeverBound(S, self, pointId) == FALSE

\* dockingStations.some(station => station.id !== self && station.boundStationId === pointId)
IsAlreadyBound(S, self, pointId) ==
  \E i \in 1..Len(S) : S[i].id # self /\ S[i].boundStationId = pointId

\* stationOptions of the station panel: the entry for no binding (None) and
\* the names of the waypoints no other station is bound to
BindingOptions ==
  {None} \cup {stationPoints[i].modelName : i \in
                 {j \in 1..Len(stationPoints) :
                    ~IsAlreadyBound(dockingStations, selectedObjectId, stationPoints[j].id)}}

\* handleStationBindingChange; its select element is disabled in run mode.
\* newStationName is None for the entry of no binding.
StationBindingChange(newStationName) ==
  /\ ~isRunning
  /\ ~isEditingName
  /\ selectedObjectId # None /\ selectedObjectType = "dockingStation"
  /\ showPanel /\ panel.ptype = "dockingStation"
  /\ LET newStationId == IF newStationName = None THEN None
                         ELSE FindByName(stationPoints, newStationName)
     IN IF newStationId # None /\ IsAlreadyBound(dockingStations, selectedObjectId, newStationId)
        THEN /\ UNCHANGED dockingStations
             /\ lastOp' = <<"StationBindingChange", "alert", newStationName>>
        ELSE /\ dockingStations' = [i \in 1..Len(dockingStations) |->
                  IF dockingStations[i].id = selectedObjectId
                  THEN [dockingStations[i] EXCEPT !.boundStationId = newStationId]
                  ELSE dockingStations[i]]
             /\ lastOp' = <<"StationBindingChange", "bound", newStationName>>
  /\ used.edits < limit.edits
  /\ used' = [used EXCEPT !.edits = @ + 1]
  /\ UNCHANGED <<drones, stationPoints, cargos, sel, isEditingName, isRunning, orig,
                 refDroneId, panel, tweens, timers, watch>>
  /\ Persist

\* ------------------------------------------------------------------ cargo
CargoIds == <<"c1", "c2", "c3", "c4", "c5", "c6", "c7">>
CargoDrop == 200    \* a dispatched cargo hangs 0.2 m below its drone

SetCargoId(D, id, cargoId) ==
  [i \in 1..Len(D) |-> IF D[i].id = id THEN [D[i] EXCEPT !.cargoId = cargoId] ELSE D[i]]

\* the status item of the drone panel rewritten with a text that holds none of
\* the words getDroneStatus looks for
PanelStatus(old) == IF old.ptype = "drone" THEN [old EXCEPT !.moving = FALSE] ELSE old

\* the panel shows the run-mode buttons of a drone / of a docking station
DroneButtons   == isRunning /\ showPanel /\ panel.ptype = "drone"
StationButtons == isRunning /\ showPanel /\ panel.ptype = "dockingStation"

\* a test that finds no drone carrying
NeverCarrying(d) == FALSE

\* if (selectedDrone.cargoId)
Carrying(d) == d.cargoId # None

\* handleDispatchCargo
HandleDispatchCargo ==
  /\ DroneButtons
  /\ selectedObjectId # None /\ selectedObjectType = "drone"
  /\ Has(drones, selectedObjectId)
  /\ LET d == Find(drones, selectedObjectId)
         cargoId == CargoIds[used.cargo + 1]
     IN IF Carrying(d)
        THEN \* console.log(...), return
             /\ lastOp' = <<"DispatchCargo", "carrying">>
             /\ UNCHANGED <<drones, cargos, used>>
        ELSE /\ used.cargo < limit.cargo
             /\ cargos' = Append(cargos,
                    [id |-> cargoId,
                     position |-> <<d.position[1], d.position[2] - CargoDrop, d.position[3]>>,
                     droneId |-> selectedObjectId, selected |-> FALSE])
             /\ drones' = SetCargoId(drones, selectedObjectId, cargoId)
             /\ used' = [used EXCEPT !.cargo = @ + 1]
             /\ lastOp' = <<"DispatchCargo">>
  /\ UNCHANGED <<dockingStations, stationPoints, sel, isEditingName, isRunning, orig,
                 refDroneId, panel, tweens, timers, watch>>
  /\ Persist

\* hasCargo of the panel: Boolean(drones.find(d => d.id === selectedObjectId)?.cargoId)
HasCargo ==
  /\ selectedObjectId # None /\ selectedObjectType = "drone"
  /\ Has(drones, selectedObjectId)
  /\ Find(drones, selectedObjectId).cargoId # None

\* a click on the dispatch button, which the panel shows while hasCargo is false
DispatchCargo == ~HasCargo /\ HandleDispatchCargo

\* --------------------------------------------------------- manual lift drive
\* station.liftPosition ?? 1
NoLift == 0 - 1
LiftOr(l, default) == IF l = NoLift THEN default ELSE l

\* the interval both lift handlers start: it keeps the array and the index of
\* the render that started it
LiftDrive(target, level) ==
  LET stationIndex == FindIndex(dockingStations, selectedObjectId)
      currentPosition == LiftOr(dockingStations[stationIndex].liftPosition, LiftTop)
  IN [kind |-> "liftDrive", n |-> used.drives + 1, cStations |-> dockingStations,
      idx |-> stationIndex, cId |-> selectedObjectId, pos |-> currentPosition,
      step |-> (IF currentPosition > target THEN 0 - LiftStep ELSE LiftStep),
      target |-> target, level |-> level]

\* handleToggleLift(position), behind the buttons 恢复 (up) and 下降 (down)
ToggleLift(up) ==
  /\ StationButtons
  /\ panel.lift[1] # "moving"
  /\ panel.lift[1] # (IF up THEN "top" ELSE "bottom")
  /\ selectedObjectId # None /\ selectedObjectType = "dockingStation"
  /\ Has(dockingStations, selectedObjectId)
  /\ LET cur == LiftOr(Find(dockingStations, selectedObjectId).liftPosition, LiftTop)
     IN ~((up /\ cur >= LiftTop) \/ (~up /\ cur <= 0))
  /\ used.drives < limit.drives
  /\ timers' = timers \cup {LiftDrive(IF up THEN LiftTop ELSE 0, 0)}
  /\ used' = [used EXCEPT !.drives = @ + 1]
  /\ lastOp' = <<"ToggleLift">>
  /\ UNCHANGED <<store, sel, isEditingName, isRunning, orig, refDroneId, panel, tweens, watch>>
  /\ Persist

Abs(x) == IF x < 0 THEN 0 - x ELSE x

\* targetPosition of handleLiftToLevel: (level - 1) / 2.2
LevelTarget(level) == IF level = 1 THEN 0 ELSE Level2Manual

\* handleLiftToLevel(level), behind the level input of the station panel
LiftToLevel(level) ==
  /\ StationButtons
  /\ panel.lift[1] # "moving"
  /\ level \in {1, 2}
  /\ selectedObjectId # None /\ selectedObjectType = "dockingStation"
  /\ Has(dockingStations, selectedObjectId)
  /\ LET cur == LiftOr(Find(dockingStations, selectedObjectId).liftPosition, LiftTop)
     IN IF Abs(cur - LevelTarget(level)) < LevelTolerance
        THEN \* already near the target: the handler returns
             /\ lastOp' = <<"LiftToLevel", level, "near">>
             /\ UNCHANGED <<timers, used>>
        ELSE /\ used.drives < limit.drives
             /\ timers' = timers \cup {LiftDrive(LevelTarget(level), level)}
             /\ used' = [used EXCEPT !.drives = @ + 1]
             /\ lastOp' = <<"LiftToLevel", level, "drive">>
  /\ UNCHANGED <<store, sel, isEditingName, isRunning, orig, refDroneId, panel, tweens, watch>>
  /\ Persist

\* currentPos += step, never stopped
Overshot(pos, step, target) == pos + step

\* currentPos += step, stopped at the target
Stepped(pos, step, target) ==
  IF (IF step > 0 THEN pos + step >= target ELSE pos + step <= target)
  THEN target ELSE pos + step

\* one callback of the interval of handleToggleLift / handleLiftToLevel
LiftTick(t) ==
  /\ t \in timers /\ t.kind = "liftDrive"
  /\ LET newPos == Stepped(t.pos, t.step, t.target)
         reached == newPos = t.target
     IN /\ dockingStations' = [t.cStations EXCEPT ![t.idx].liftPosition = newPos]
        /\ panel' = IF reached
                    THEN [ptype |-> "dockingStation",
                          lift |-> IF t.level # 0 THEN <<"level", t.level>>
                                   ELSE IF t.target = LiftTop THEN <<"top", 0>>
                                   ELSE <<"bottom", 0>>,
                          capacity |-> 0, moving |-> FALSE, hasHeight |-> FALSE,
                          height |-> 0]
                    ELSE PanelFor(panel, t.cId, "dockingStation", <<>>, t.cStations, <<>>)
        /\ timers' = IF reached THEN timers \ {t}
                     ELSE (timers \ {t}) \cup {[t EXCEPT !.pos = newPos]}
  /\ lastOp' = <<"LiftTick", t.n>>
  /\ UNCHANGED <<drones, stationPoints, cargos, sel, isEditingName, isRunning, orig,
                 refDroneId, tweens, used, watch>>
  /\ Persist

\* ---------------------------------------------------------------- flights
SetPropellers(D, id, on) ==
  [i \in 1..Len(D) |-> IF D[i].id = id THEN [D[i] EXCEPT !.propellersActive = on] ELSE D[i]]

\* updateDronePosition(droneId, newY)
UpdateDronePosition(D, id, y) ==
  [i \in 1..Len(D) |-> IF D[i].id = id THEN [D[i] EXCEPT !.position[2] = y] ELSE D[i]]

\* History kept in a tween record, for stating properties only: gDrone is the
\* drone its command was given to, gAlone says that no other motion was in
\* flight or waiting when it started and none has been started since.
Disturbed(ts) == [i \in 1..Len(ts) |-> [ts[i] EXCEPT !.gAlone = FALSE]]

Undisturbed == tweens = <<>> /\ \A t \in timers : t.kind # "returnWait"

\* handleTakeOff(targetStationId); the target is chosen among the waypoints
\* the panel lists
TakeOff(targetStationId) ==
  /\ DroneButtons
  /\ selectedObjectId # None /\ selectedObjectType = "drone"
  /\ Has(stationPoints, targetStationId)
  /\ Has(drones, selectedObjectId)
  /\ used.flights < limit.flights
  /\ LET targetStation == Find(stationPoints, targetStationId)
         selectedDrone == Find(drones, selectedObjectId)
     IN /\ tweens' = Append(Disturbed(tweens),
              [kind |-> "takeOff", n |-> used.flights + 1, phase |-> "rise", step |-> 0,
               from |-> selectedDrone.position, target |-> targetStation.position,
               cType |-> targetStation.stationType,
               gDrone |-> selectedObjectId, gAlone |-> Undisturbed])
        /\ panel' = UpdatePanelHeight(panel, selectedDrone.position[2], FALSE)
  /\ refDroneId' = selectedObjectId
  /\ drones' = SetPropellers(drones, selectedObjectId, TRUE)
  /\ used' = [used EXCEPT !.flights = @ + 1]
  /\ lastOp' = <<"TakeOff">>
  /\ UNCHANGED <<dockingStations, stationPoints, cargos, sel, isEditingName, isRunning,
                 orig, timers, watch>>
  /\ Persist

\* handleRiseUp (up) and handleDescend (~up) start the same 10 s tween
Climb(up) ==
  /\ selectedObjectId # None /\ selectedObjectType = "drone"
  /\ used.flights < limit.flights
  /\ refDroneId' = selectedObjectId
  /\ drones' = SetPropellers(drones, selectedObjectId, TRUE)
  /\ IF Has(drones, selectedObjectId)
     THEN LET startHeight == Find(drones, selectedObjectId).position[2] IN
          /\ panel' = UpdatePanelHeight(panel, startHeight, TRUE)
          /\ tweens' = Append(Disturbed(tweens),
                [kind |-> "climb", n |-> used.flights + 1, up |-> up, step |-> 0,
                 fromY |-> startHeight, gDrone |-> selectedObjectId, gAlone |-> Undisturbed])
     ELSE UNCHANGED <<panel, tweens>>
  /\ used' = [used EXCEPT !.flights = @ + 1]
  /\ UNCHANGED <<dockingStations, stationPoints, cargos, sel, isEditingName, isRunning,
                 orig, timers, watch>>

\* the button reads 上升 below the flight height (getRiseDescendButtonInfo)
RiseUp ==
  /\ DroneButtons
  /\ ~panel.moving /\ panel.height < FlightHeight
  /\ Climb(TRUE)
  /\ lastOp' = <<"RiseUp">>
  /\ Persist

\* the button reads 下降 at the flight height
Descend ==
  /\ DroneButtons
  /\ ~panel.moving /\ panel.height >= FlightHeight /\ panel.height > 0
  /\ Climb(FALSE)
  /\ lastOp' = <<"Descend">>
  /\ Persist

\* the 200 ms timeout a finished takeOff / rise / descend leaves behind
MotionDone(t) ==
  /\ t \in timers /\ t.kind = "motionDone"
  /\ panel' = UpdatePanelHeight(panel, t.h, FALSE)
  /\ refDroneId' = None
  /\ timers' = timers \ {t}
  /\ lastOp' = <<"MotionDone">>
  /\ UNCHANGED <<store, sel, isEditingName, isRunning, orig, tweens, used, watch>>
  /\ Persist

\* ----------------------------------------------------------- the tween group
\* The value a tween has reached after k of its TweenSteps frames.
Lerp(a, b, k) == a + ((b - a) * k) \div TweenSteps

Lerp3(a, b, k) == <<Lerp(a[1], b[1], k), Lerp(a[2], b[2], k), Lerp(a[3], b[3], k)>>

\* where a phase of the three chained tweens takes animatedPosition
PhaseTo(t) ==
  IF t.phase = "rise" THEN <<t.from[1], FlightHeight, t.from[3]>>
  ELSE IF t.phase = "move" THEN <<t.target[1], t.from[2], t.target[3]>>
  ELSE <<t.from[1], t.target[2], t.from[3]>>

NextPhase(phase) == IF phase = "rise" THEN "move" ELSE "descend"

\* a tween of duration 0 makes no progress
StepsStalled(t) == IF PhaseTo(t) = t.from THEN 0 ELSE t.step + 1

\* a tween of duration 0 completes on its first update
StepsDone(t) == IF PhaseTo(t) = t.from THEN TweenSteps ELSE t.step + 1

\* descendPhase.onComplete of handleTakeOff
Arrive(D, id, target, type) ==
  [i \in 1..Len(D) |->
     IF D[i].id = id
     THEN [D[i] EXCEPT !.position = target, !.propellersActive = (type = Hover),
                       !.hovering = (type = Hover)]
     ELSE D[i]]

\* One TWEEN.update() of a takeOff tween.  acc is the state the callbacks of
\* the frame have produced so far; acc.lock says that an update of this frame
\* has already stamped lastStateUpdate / lastPanelUpdate.
UpdateTakeOff(t, acc) ==
  LET k == StepsDone(t)
      pos == Lerp3(t.from, PhaseTo(t), k)
      moved == IF acc.lock THEN acc.drones
               ELSE IF t.phase = "rise"
                    THEN UpdateDronePosition(acc.drones, refDroneId, pos[2])
                    ELSE SetPosition(acc.drones, refDroneId, pos)
      shown == IF acc.lock THEN acc.panel ELSE UpdatePanelHeight(acc.panel, pos[2], FALSE)
  IN IF k < TweenSteps
     THEN [acc EXCEPT !.drones = moved, !.panel = shown, !.lock = TRUE,
                      !.tweens = Append(@, [t EXCEPT !.step = k])]
     ELSE IF t.phase # "descend"
     THEN [acc EXCEPT !.drones = moved, !.lock = TRUE,
                      !.panel = UpdatePanelHeight(shown, FlightHeight, FALSE),
                      !.tweens = Append(@, [t EXCEPT !.phase = NextPhase(t.phase),
                                                     !.step = 0, !.from = PhaseTo(t)])]
     ELSE [acc EXCEPT !.drones = Arrive(moved, refDroneId, t.target, t.cType),
                      !.panel = shown, !.lock = TRUE,
                      !.timers = @ \cup {[kind |-> "motionDone", n |-> t.n,
                                          h |-> t.target[2]]}]

\* tween.onComplete of handleRiseUp / handleDescend
ClimbDone(D, id, up) ==
  [i \in 1..Len(D) |->
     IF D[i].id = id
     THEN IF up THEN [D[i] EXCEPT !.position[2] = FlightHeight, !.hovering = TRUE]
          ELSE [D[i] EXCEPT !.position[2] = 0, !.hovering = FALSE,
                            !.propellersActive = FALSE]
     ELSE D[i]]

\* One TWEEN.update() of a rise / descend tween.
UpdateClimb(t, acc) ==
  LET k == t.step + 1
      toY == IF t.up THEN FlightHeight ELSE 0
      y == Lerp(t.fromY, toY, k)
      moved == IF acc.lock THEN acc.drones ELSE UpdateDronePosition(acc.drones, refDroneId, y)
      shown == IF acc.lock THEN acc.panel ELSE UpdatePanelHeight(acc.panel, y, TRUE)
  IN IF k < TweenSteps
     THEN [acc EXCEPT !.drones = moved, !.panel = shown, !.lock = TRUE,
                      !.tweens = Append(@, [t EXCEPT !.step = k])]
     ELSE [acc EXCEPT !.drones = ClimbDone(moved, refDroneId, t.up), !.panel = shown,
                      !.lock = TRUE,
                      !.timers = @ \cup {[kind |-> "motionDone", n |-> t.n, h |-> toY]}]

\* ------------------------------------------------------------ removeCargo
HoleX          == 1500   \* 6/2 - 0.5 - 2.0/2: the hole above the lift platform
PlatformBase   == 1000   \* 0.2 + 0.5 + 0.3: cargo height on the platform at lift 0
PlatformTravel == 2      \* 2.2 m of travel over LiftTop units
ShelfX         == 1200   \* stationDimensions.width / 5, to the left of the centre
SlotX          == 750    \* shelfWidth / 4
ShelfY1        == 1250   \* 0.7 + 0.05 + 0.5
ShelfY2        == 2250   \* 0.7 + 1 + 0.05 + 0.5

\* stationPoints.find(station => distance <= 2): the first waypoint in range
Near(pos, p) ==
  (p.position[1] - pos[1]) * (p.position[1] - pos[1])
    + (p.position[3] - pos[3]) * (p.position[3] - pos[3]) <= NearRadius * NearRadius

NearbyStation(pos) ==
  IF \E i \in 1..Len(stationPoints) : Near(pos, stationPoints[i])
  THEN stationPoints[CHOOSE i \in 1..Len(stationPoints) :
          Near(pos, stationPoints[i]) /\ \A j \in 1..(i-1) : ~Near(pos, stationPoints[j])].id
  ELSE None

\* a lookup that takes the first docking station whatever it is bound to
AnyDockingStation(pointId) == IF dockingStations # <<>> THEN 1 ELSE 0

\* dockingStations.find(s => s.boundStationId === nearbyStation.id), as an index
BoundDockingStation(pointId) ==
  IF pointId # None /\ \E i \in 1..Len(dockingStations) : dockingStations[i].boundStationId = pointId
  THEN CHOOSE i \in 1..Len(dockingStations) :
          /\ dockingStations[i].boundStationId = pointId
          /\ \A j \in 1..(i-1) : dockingStations[j].boundStationId # pointId
  ELSE 0

\* shelfOccupancy.findIndex(occupied => !occupied), 1-based; 0 stands for -1
EmptySlotIndex(occ) ==
  IF \E i \in 1..Len(occ) : ~occ[i]
  THEN CHOOSE i \in 1..Len(occ) : ~occ[i] /\ \A j \in 1..(i-1) : occ[j]
  ELSE 0

\* the lift position the store sequence drives to: 0.0 for level 1, 0.5 for level 2
TargetLiftPosition(slot) == IF slot <= 2 THEN 0 ELSE Level2Store

\* cargoInitialPosition / cargoFollowPosition
OnPlatform(stationPos, lift) ==
  <<stationPos[1] + HoleX, stationPos[2] + PlatformBase + PlatformTravel * lift, stationPos[3]>>

\* finalCargoPosition: slots 1 and 3 are on the left, 1 and 2 on level 1
OnShelf(stationPos, slot) ==
  <<stationPos[1] - ShelfX + (IF slot \in {1, 3} THEN 0 - SlotX ELSE SlotX),
    IF slot <= 2 THEN ShelfY1 ELSE ShelfY2,
    stationPos[3]>>

MoveCargo(C, cargoId, pos) ==
  [i \in 1..Len(C) |-> IF C[i].id = cargoId THEN [C[i] EXCEPT !.position = pos] ELSE C[i]]

\* handleCargoDelete(cargoId), the state it writes
CargoDelete(cargoId) ==
  /\ drones' = [i \in 1..Len(drones) |->
        IF drones[i].cargoId = cargoId THEN [drones[i] EXCEPT !.cargoId = None]
        ELSE drones[i]]
  /\ cargos' = FilterOut(cargos, cargoId)

\* what the callbacks of one handleRemoveCargo call have closed over
StoreJob(selectedDrone, b, slot) ==
  [cId |-> selectedObjectId, cargoId |-> selectedDrone.cargoId,
   cPos |-> selectedDrone.position,
   hasOrigin |-> Has(originalDrones, selectedObjectId),
   origin |-> IF Has(originalDrones, selectedObjectId)
              THEN Find(originalDrones, selectedObjectId).position ELSE <<0, 0, 0>>,
   idx |-> b, sPos |-> dockingStations[b].position,
   sLift |-> LiftOr(dockingStations[b].liftPosition, LiftTop),
   cOcc |-> dockingStations[b].shelfOccupancy, slot |-> slot]

\* handleRemoveCargo, behind the button shown while hasCargo is true
RemoveCargo ==
  /\ DroneButtons
  /\ selectedObjectId # None /\ selectedObjectType = "drone"
  /\ Has(drones, selectedObjectId)
  /\ Find(drones, selectedObjectId).cargoId # None
  /\ LET selectedDrone == Find(drones, selectedObjectId)
         b == BoundDockingStation(NearbyStation(selectedDrone.position))
         slot == IF b = 0 THEN 0 ELSE EmptySlotIndex(dockingStations[b].shelfOccupancy)
     IN IF b = 0
        THEN /\ CargoDelete(selectedDrone.cargoId)
             /\ panel' = PanelStatus(panel)
             /\ lastOp' = <<"RemoveCargo", "abandon">>
             /\ UNCHANGED <<timers, issued>>
        ELSE IF ~Has(cargos, selectedDrone.cargoId)
        THEN /\ lastOp' = <<"RemoveCargo", "lost">>
             /\ UNCHANGED <<drones, cargos, panel, timers, issued>>
        ELSE IF slot = 0
        THEN /\ lastOp' = <<"RemoveCargo", "full">>        \* alert(...), return
             /\ UNCHANGED <<drones, cargos, panel, timers, issued>>
        ELSE /\ cargos' = [i \in 1..Len(cargos) |->
                  IF cargos[i].id = selectedDrone.cargoId
                  THEN [cargos[i] EXCEPT
                          !.position = OnPlatform(dockingStations[b].position,
                                          LiftOr(dockingStations[b].liftPosition, LiftTop)),
                          !.droneId = None]
                  ELSE cargos[i]]
             /\ drones' = SetCargoId(drones, selectedObjectId, None)
             /\ panel' = PanelStatus(panel)
             /\ timers' = timers \cup {[kind |-> "returnWait",
                                        job |-> StoreJob(selectedDrone, b, slot)]}
             /\ issued' = Append(issued, StoreJob(selectedDrone, b, slot))
             /\ lastOp' = <<"RemoveCargo", "store">>
  /\ UNCHANGED <<dockingStations, stationPoints, sel, isEditingName, isRunning, orig,
                 refDroneId, tweens, used, limit, entered, counters>>
  /\ Persist

\* the 500 ms timeout of handleRemoveCargo: the return flight starts
ReturnStart(t) ==
  /\ t \in timers /\ t.kind = "returnWait"
  /\ timers' = timers \ {t}
  /\ IF t.job.hasOrigin
     THEN /\ drones' = SetPropellers(drones, t.job.cId, TRUE)
          /\ panel' = PanelStatus(panel)
          /\ tweens' = Append(Disturbed(tweens),
                [kind |-> "return", phase |-> "rise", step |-> 0, from |-> t.job.cPos,
                 target |-> t.job.origin, job |-> t.job, gDrone |-> t.job.cId,
                 gAlone |-> FALSE])
     ELSE UNCHANGED <<drones, panel, tweens>>
  /\ lastOp' = <<"ReturnStart">>
  /\ UNCHANGED <<dockingStations, stationPoints, cargos, sel, isEditingName, isRunning,
                 orig, refDroneId, used, watch>>
  /\ Persist

\* the status and height items the return flight rewrites
ReturnPanel(old, phase, y) ==
  IF old.ptype = "drone"
  THEN [old EXCEPT !.moving = FALSE,
                   !.height = IF phase # "move" /\ old.hasHeight THEN y ELSE @]
  ELSE old

\* returnDescendPhase.onComplete
Returned(D, id, target) ==
  [i \in 1..Len(D) |->
     IF D[i].id = id
     THEN [D[i] EXCEPT !.position = target, !.propellersActive = FALSE, !.hovering = FALSE]
     ELSE D[i]]

\* One TWEEN.update() of a return-flight tween.  Its callbacks write the drone
\* the handler had selected, without rate limit.  returnRisePhase.onComplete
\* starts the store sequence: after 500 ms the interval that drives the lift
\* from the position the handler saw.
UpdateReturn(t, acc) ==
  LET k == StepsDone(t)
      pos == Lerp3(t.from, PhaseTo(t), k)
      moved == SetPosition(acc.drones, t.job.cId, pos)
      shown == ReturnPanel(acc.panel, t.phase, pos[2])
      target == TargetLiftPosition(t.job.slot)
  IN IF k < TweenSteps
     THEN [acc EXCEPT !.drones = moved, !.panel = shown,
                      !.tweens = Append(@, [t EXCEPT !.step = k])]
     ELSE IF t.phase # "descend"
     THEN [acc EXCEPT !.drones = moved, !.panel = shown,
                      !.tweens = Append(@, [t EXCEPT !.phase = NextPhase(t.phase),
                                                     !.step = 0, !.from = PhaseTo(t)]),
                      !.timers = IF t.phase = "rise"
                                 THEN @ \cup {[kind |-> "storeLift", job |-> t.job,
                                               pos |-> t.job.sLift,
                                               step |-> IF t.job.sLift > target
                                                        THEN 0 - LiftStep ELSE LiftStep,
                                               target |-> target]}
                                 ELSE @]
     ELSE [acc EXCEPT !.drones = Returned(moved, t.job.cId, t.target), !.panel = shown,
                      !.timers = @ \cup {[kind |-> "returnDone", job |-> t.job]}]

\* the 200 ms timeout of returnDescendPhase.onComplete
ReturnDone(t) ==
  /\ t \in timers /\ t.kind = "returnDone"
  /\ panel' = ReturnPanel(panel, "descend", t.job.origin[2])
  /\ timers' = timers \ {t}
  /\ lastOp' = <<"ReturnDone">>
  /\ UNCHANGED <<store, sel, isEditingName, isRunning, orig, refDroneId, tweens, used, watch>>
  /\ Persist

\* ------------------------------------------------------- the store sequence
\* What newStations[stationIndex] = {...newStations[stationIndex], f: v} leaves
\* at an index the array no longer has: an object with that one field.
Hole ==
  [id |-> None, position |-> <<0, 0, 0>>, selected |-> FALSE, liftPosition |-> NoLift,
   boundStationId |-> None, shelfOccupancy |-> <<>>, modelName |-> None]

Padded(S, idx) ==
  IF idx <= Len(S) THEN S ELSE S \o [i \in 1..(idx - Len(S)) |-> Hole]

SetLiftAt(S, idx, l) == [Padded(S, idx) EXCEPT ![idx].liftPosition = l]

SetShelfAt(S, idx, occ) == [Padded(S, idx) EXCEPT ![idx].shelfOccupancy = occ]

\* the interval gives way to the settle timeout at its first callback
ReachedAtOnce(pos, target) == TRUE

\* the interval never gives way to the settle timeout
ReachedNever(pos, target) == FALSE

\* if (reachedTarget): currentPos has been set to the target
ReachedTarget(pos, target) == pos = target

\* one callback of liftAnimationInterval: the lift and the cargo on it move one
\* step; at the target the interval ends and the 500 ms timeout is set
StoreLiftTick(t) ==
  /\ t \in timers /\ t.kind = "storeLift"
  /\ LET newPos == Stepped(t.pos, t.step, t.target) IN
     /\ dockingStations' = SetLiftAt(dockingStations, t.job.idx, newPos)
     /\ cargos' = MoveCargo(cargos, t.job.cargoId, OnPlatform(t.job.sPos, newPos))
     /\ timers' = (timers \ {t}) \cup
                    {IF ReachedTarget(newPos, t.target) THEN [kind |-> "storeSettle", job |-> t.job]
                     ELSE [t EXCEPT !.pos = newPos]}
  /\ lastOp' = <<"StoreLiftTick">>
  /\ UNCHANGED <<drones, stationPoints, sel, isEditingName, isRunning, orig, refDroneId,
                 panel, tweens, used, watch>>
  /\ Persist

\* the 500 ms timeout at the target: the cargo goes to its shelf position and
\* the slot is marked in the occupancy the handler saw; the recover interval
\* is set 500 ms later
StoreSettle(t) ==
  /\ t \in timers /\ t.kind = "storeSettle"
  /\ cargos' = MoveCargo(cargos, t.job.cargoId, OnShelf(t.job.sPos, t.job.slot))
  /\ dockingStations' = SetShelfAt(dockingStations, t.job.idx,
                                   [t.job.cOcc EXCEPT ![t.job.slot] = TRUE])
  /\ timers' = (timers \ {t}) \cup {[kind |-> "recover", job |-> t.job]}
  /\ lastOp' = <<"StoreSettle">>
  /\ UNCHANGED <<drones, stationPoints, sel, isEditingName, isRunning, orig, refDroneId,
                 panel, tweens, used, watch>>
  /\ Persist

\* one callback of recoverAnimationInterval
RecoverTick(t) ==
  /\ t \in timers /\ t.kind = "recover"
  /\ IF t.job.idx > Len(dockingStations)
     THEN /\ timers' = timers \ {t}
          /\ UNCHANGED dockingStations
     ELSE LET currentLiftPos == LiftOr(dockingStations[t.job.idx].liftPosition, 0)
              newLiftPos == IF currentLiftPos + LiftStep > LiftTop THEN LiftTop
                            ELSE currentLiftPos + LiftStep
          IN /\ dockingStations' = [dockingStations EXCEPT
                                      ![t.job.idx].liftPosition = newLiftPos]
             /\ timers' = IF newLiftPos >= LiftTop THEN timers \ {t} ELSE timers
  /\ lastOp' = <<"RecoverTick">>
  /\ UNCHANGED <<drones, stationPoints, cargos, sel, isEditingName, isRunning, orig,
                 refDroneId, panel, tweens, used, watch>>
  /\ Persist

\* --------------------------------------------------------- animation frame
UpdateTween(t, acc) ==
  IF t.kind = "takeOff" THEN UpdateTakeOff(t, acc)
  ELSE IF t.kind = "climb" THEN UpdateClimb(t, acc)
  ELSE UpdateReturn(t, acc)

\* TWEEN.update(): every tween of the group, in the order they were started
RECURSIVE UpdateAll(_, _)
UpdateAll(ts, acc) ==
  IF ts = <<>> THEN acc ELSE UpdateAll(Tail(ts), UpdateTween(Head(ts), acc))

\* one callback of the requestAnimationFrame loop
FrameTick ==
  /\ tweens # <<>>
  /\ LET r == UpdateAll(tweens, [drones |-> drones, panel |-> panel, lock |-> FALSE,
                                 tweens |-> <<>>, timers |-> timers])
     IN /\ drones' = r.drones
        /\ panel' = r.panel
        /\ tweens' = r.tweens
        /\ timers' = r.timers
  /\ lastOp' = <<"FrameTick">>
  /\ UNCHANGED <<dockingStations, stationPoints, cargos, sel, isEditingName, isRunning,
                 orig, refDroneId, used, watch>>
  /\ Persist

\* ------------------------------------------------------------ specification
Timer ==
  \E t \in timers :
    \/ PanelRefresh(t)
    \/ LiftTick(t)
    \/ MotionDone(t)
    \/ ReturnStart(t)
    \/ ReturnDone(t)
    \/ StoreLiftTick(t)
    \/ StoreSettle(t)
    \/ RecoverTick(t)

User ==
  \/ \E type \in Types : \E id \in Ids(ArrayOf(type)) : Select(id, type)
  \/ ClosePanel
  \/ EnterRun
  \/ ExitRun
  \/ DispatchCargo
  \/ RemoveCargo
  \/ \E up \in BOOLEAN : ToggleLift(up)
  \/ \E level \in {1, 2} : LiftToLevel(level)
  \/ \E w \in Ids(stationPoints) : TakeOff(w)
  \/ RiseUp
  \/ Descend

Next == User \/ Timer \/ FrameTick

Spec == Init /\ [][Next]_vars

\* The edit path and the mode toggle: every command of the editor, and of the
\* run-mode commands the one that creates cargo.
Names(arr) == {arr[i].modelName : i \in 1..Len(arr)}

\* the entities the user clicks in this family of behaviours
EditTargets == {"d1", "s1", "w2"}

NextEdit ==
  \/ \E type \in Types : \E id \in Ids(ArrayOf(type)) \cap EditTargets : Select(id, type)
  \/ ClosePanel
  \/ EnterRun
  \/ ExitRun
  \/ \E t \in timers : PanelRefresh(t)
  \/ DeleteKey
  \/ \E type \in Types : \E pos \in PlacePositions : Place(type, pos)
  \/ \E pos \in PlacePositions : Transform(pos)
  \/ StartEditing
  \/ \E name \in NewNames : Rename(name)
  \/ \E type \in {Landing, Hover} : StationTypeChange(type)
  \/ \E name \in BindingOptions : StationBindingChange(name)
  \/ DispatchCargo

SpecEdit == Init /\ [][NextEdit]_vars

\* The manual lift drives and the mode toggle.
NextLift ==
  \/ \E id \in Ids(dockingStations) : Select(id, "dockingStation")
  \/ EnterRun
  \/ ExitRun
  \/ \E t \in timers : PanelRefresh(t)
  \/ \E up \in BOOLEAN : ToggleLift(up)
  \/ \E level \in {1, 2} : LiftToLevel(level)
  \/ \E t \in timers : LiftTick(t)

SpecLift == Init /\ [][NextLift]_vars

\* Bindings: the edits that change stations, waypoints and bindings, and the
\* mode toggle.
InitBind == Loaded /\ limit = [Limits EXCEPT !.edits = MaxBindings]

NextBind ==
  \/ \E type \in {"dockingStation", "stationPoint"} :
        \E id \in Ids(ArrayOf(type)) : Select(id, type)
  \/ EnterRun
  \/ ExitRun
  \/ \E t \in timers : PanelRefresh(t)
  \/ DeleteKey
  \/ \E type \in {"dockingStation", "stationPoint"} :
        \E pos \in PlacePositions : Place(type, pos)
  \/ \E name \in BindingOptions : StationBindingChange(name)

SpecBind == InitBind /\ [][NextBind]_vars

\* Creations, deletions and reloads: the asset and waypoint numbers.
InitAsset == Loaded /\ limit = [Limits EXCEPT !.edits = MaxAssets]

NextAsset ==
  \/ \E type \in Types : \E id \in Ids(ArrayOf(type)) : Select(id, type)
  \/ DeleteKey
  \/ \E type \in Types : \E pos \in PlacePositions : Place(type, pos)
  \/ Reload

SpecAsset == InitAsset /\ [][NextAsset]_vars

\* The mode toggle, called once or twice per render, around a dispatch.
InitToggle == Loaded /\ limit = [Limits EXCEPT !.runs = MaxToggles]

NextToggle ==
  \/ \E type \in Types : \E id \in Ids(ArrayOf(type)) \cap EditTargets : Select(id, type)
  \/ ClosePanel
  \/ EnterRun
  \/ ExitRun
  \/ ToggleTwice
  \/ \E t \in timers : PanelRefresh(t)
  \/ DispatchCargo

SpecToggle == InitToggle /\ [][NextToggle]_vars

\* Cargo dispatched, unloaded near a station or away from one, and the mode
\* left at any moment of it, the callbacks of the unloading still pending.
InitExit == Loaded /\ limit = [Limits EXCEPT !.cargo = MaxLoads]

NextExit ==
  \/ \E id \in Ids(drones) : timers = {} /\ tweens = <<>> /\ Select(id, "drone")
  \/ EnterRun
  \/ ExitRun
  \/ DispatchCargo
  \/ RemoveCargo
  \/ \E t \in timers : PanelRefresh(t)
  \/ \E t \in timers : ReturnStart(t)
  \/ \E t \in timers : ReturnDone(t)
  \/ \E t \in timers : StoreLiftTick(t)
  \/ \E t \in timers : StoreSettle(t)
  \/ \E t \in timers : RecoverTick(t)
  \/ FrameTick

SpecExit == InitExit /\ [][NextExit]_vars

\* Lift drives that may overlap, on a station whose lift starts anywhere: a
\* saved scene stores whatever liftPosition the station had.
LiftStarts == {5, 22, 1095, LiftTop}

InitDrive ==
  /\ \E l \in LiftStarts : LoadedWith([Scene.stations EXCEPT ![1].liftPosition = l])
  /\ limit = [Limits EXCEPT !.drives = MaxOverlap]

\* Both handlers set their interval to the same period, so two running
\* intervals fire in turn: none fires twice while the other waits.
InTurn(t) ==
  (lastOp[1] = "LiftTick" /\ lastOp[2] = t.n) => timers \ {t} = {}

NextDrive ==
  \/ timers = {} /\ Select("s1", "dockingStation")
  \/ EnterRun
  \/ \E up \in BOOLEAN : ToggleLift(up)
  \/ \E level \in {1, 2} : LiftToLevel(level)
  \/ \E t \in timers : InTurn(t) /\ LiftTick(t)

SpecDrive == InitDrive /\ [][NextDrive]_vars

\* no timer is pending and no tween is active
Quiet == timers = {} /\ tweens = <<>>

\* Every callback of the store sequence and of the return flight, in any order.
StoreCallbacks ==
  \/ \E t \in timers : ReturnStart(t)
  \/ \E t \in timers : ReturnDone(t)
  \/ \E t \in timers : StoreLiftTick(t)
  \/ \E t \in timers : StoreSettle(t)
  \/ \E t \in timers : RecoverTick(t)
  \/ FrameTick

\* The dispatch handler called whatever the drone carries, around unloadings.
NextDispatch ==
  \/ \E id \in Ids(drones) : Quiet /\ Select(id, "drone")
  \/ EnterRun
  \/ HandleDispatchCargo
  \/ Quiet /\ RemoveCargo
  \/ StoreCallbacks

SpecDispatch == Init /\ [][NextDispatch]_vars

\* Unloading in scenes that differ in the waypoint station s1 is bound to:
\* bound to w1, drone d2 is near no bound waypoint; unbound, no drone is.
BoundChoices == {None, "w1", "w2"}

InitAbandon ==
  /\ \E b \in BoundChoices : LoadedWith([Scene.stations EXCEPT ![1].boundStationId = b])
  /\ limit = Limits

NextAbandon ==
  \/ \E id \in Ids(drones) : Quiet /\ Select(id, "drone")
  \/ EnterRun
  \/ Quiet /\ DispatchCargo
  \/ Quiet /\ RemoveCargo
  \/ StoreCallbacks

SpecAbandon == InitAbandon /\ [][NextAbandon]_vars

\* An entity deleted while its lift drive or its flight is under way.
NextVanish ==
  \/ \E type \in {"drone", "dockingStation"} :
        \E id \in Ids(ArrayOf(type)) \cap EditTargets : Select(id, type)
  \/ EnterRun
  \/ DeleteKey
  \/ \E up \in BOOLEAN : ToggleLift(up)
  \/ \E t \in timers : LiftTick(t)
  \/ \E w \in Ids(stationPoints) : TakeOff(w)
  \/ \E t \in timers : MotionDone(t)
  \/ FrameTick

InitVanish == Loaded /\ limit = [Limits EXCEPT !.flights = MaxDetours]

SpecVanish == InitVanish /\ [][NextVanish]_vars

\* Dispatching and unloading at any moment, overlapping store jobs included.
\* The return flight writes drones and the panel, the store sequence writes
\* dockingStations and cargos, so the order of a frame against a lift callback
\* changes neither's result; the schedule taken here runs pending frames and
\* the flight's closing panel timeout ahead of the lift callbacks.
FlightSettled == tweens = <<>> /\ \A u \in timers : u.kind # "returnDone"

NextCargo ==
  \/ \E id \in Ids(drones) : Quiet /\ Select(id, "drone")
  \/ EnterRun
  \/ DispatchCargo
  \/ RemoveCargo
  \/ \E t \in timers : ReturnStart(t)
  \/ \E t \in timers : ReturnDone(t)
  \/ \E t \in timers : FlightSettled /\ StoreLiftTick(t)
  \/ \E t \in timers : FlightSettled /\ StoreSettle(t)
  \/ \E t \in timers : FlightSettled /\ RecoverTick(t)
  \/ FrameTick

SpecCargo == Init /\ [][NextCargo]_vars

\* Every lift motion at once: a manual drive of a station whose lift starts
\* anywhere, around one store sequence on the same station. The intervals all
\* have the same period, so the manual one and the store sequence's fire in
\* turn.
InitRange ==
  /\ \E l \in LiftStarts : LoadedWith([Scene.stations EXCEPT ![1].liftPosition = l])
  /\ limit = [Limits EXCEPT !.cargo = MaxLoads]

\* the manual interval may fire again once the store sequence's has
ManualTurn ==
  lastOp[1] = "LiftTick" => \A u \in timers : u.kind \notin {"storeLift", "recover"}

\* the store sequence's interval may fire again once the manual one has
StoreTurn ==
  /\ FlightSettled
  /\ lastOp[1] \in {"StoreLiftTick", "RecoverTick"} => \A u \in timers : u.kind # "liftDrive"

NextRange ==
  \/ \E id \in Ids(drones) : isRunning /\ Quiet /\ Select(id, "drone")
  \/ isRunning /\ (Quiet \/ lastOp[1] = "ReturnDone") /\ Select("s1", "dockingStation")
  \/ EnterRun
  \/ Quiet /\ DispatchCargo
  \/ RemoveCargo
  \/ \E up \in BOOLEAN : ToggleLift(up)
  \/ \E level \in {1, 2} : LiftToLevel(level)
  \/ \E t \in timers : FlightSettled /\ ManualTurn /\ LiftTick(t)
  \/ \E t \in timers : ReturnStart(t)
  \/ \E t \in timers : ReturnDone(t)
  \/ \E t \in timers : StoreTurn /\ StoreLiftTick(t)
  \/ \E t \in timers : FlightSettled /\ StoreSettle(t)
  \/ \E t \in timers : StoreTurn /\ RecoverTick(t)
  \/ FrameTick

SpecRange == InitRange /\ [][NextRange]_vars

\* The same commands given by a user who waits until every timer and tween
\* has retired before the next command, with cargo enough to fill a station.
InitFill ==
  /\ Loaded
  /\ limit = [Limits EXCEPT !.cargo = MaxFill]

NextFill ==
  \/ \E id \in Ids(drones) : Quiet /\ Select(id, "drone")
  \/ EnterRun
  \/ Quiet /\ DispatchCargo
  \/ Quiet /\ RemoveCargo
  \/ StoreCallbacks

SpecFill == InitFill /\ [][NextFill]_vars

\* The three motion commands.
NextFlight ==
  \/ \E id \in Ids(drones) : Select(id, "drone")
  \/ EnterRun
  \/ \E w \in Ids(stationPoints) : TakeOff(w)
  \/ RiseUp
  \/ Descend
  \/ \E t \in timers : MotionDone(t)
  \/ FrameTick

SpecFlight == Init /\ [][NextFlight]_vars

\* One unloading and one takeOff, given in either order.  The descent of the
\* return flight takes 15 m / 2 m/s = 7.5 s and starts when the rise ends; the
\* lift starts 500 ms after the rise ends and marks the shelf after at most
\* 50 callbacks of 80 ms and another 500 ms, so the frame that ends the
\* descent comes after the mark.
DescentOutlastsLift ==
  \A i \in 1..Len(tweens) :
    (tweens[i].kind = "return" /\ tweens[i].phase = "descend"
       /\ StepsDone(tweens[i]) = TweenSteps)
      => \A u \in timers : u.kind \notin {"storeLift", "storeSettle"}

InitStore ==
  /\ Loaded
  /\ limit = [Limits EXCEPT !.flights = MaxDetours, !.cargo = MaxDetours]

NextStore ==
  \/ \E id \in Ids(drones) : issued = <<>> /\ Quiet /\ Select(id, "drone")
  \/ EnterRun
  \/ \E w \in Ids(stationPoints) : TakeOff(w)
  \/ issued = <<>> /\ DispatchCargo
  \/ issued = <<>> /\ RemoveCargo
  \/ \E t \in timers : MotionDone(t)
  \/ \E t \in timers : ReturnStart(t)
  \/ \E t \in timers : ReturnDone(t)
  \/ \E t \in timers : StoreLiftTick(t)
  \/ \E t \in timers : StoreSettle(t)
  \/ \E t \in timers : RecoverTick(t)
  \/ DescentOutlastsLift /\ FrameTick

\* Timers and animation frames that are due do fire: the browser runs them.
SpecStore == InitStore /\ [][NextStore]_vars /\ WF_vars(NextStore)

\* The same, with the drone deleted at any moment after its unloading.
NextDetach ==
  \/ NextStore
  \/ issued # <<>> /\ selectedObjectType = "drone" /\ DeleteKey

SpecDetach == InitStore /\ [][NextDetach]_vars /\ WF_vars(NextDetach)

\* Flights that may overlap, or manual lift drives that may overlap, from any
\* lift position: a behaviour has flights only or lift drives only.
InitRetire ==
  \/ Loaded /\ limit = [Limits EXCEPT !.drives = 0]
  \/ /\ \E l \in LiftStarts : LoadedWith([Scene.stations EXCEPT ![1].liftPosition = l])
     /\ limit = [Limits EXCEPT !.flights = 0, !.drives = MaxOverlap]

NextRetire ==
  \/ \E id \in Ids(drones) : limit.drives = 0 /\ Select(id, "drone")
  \/ limit.flights = 0 /\ timers = {} /\ Select("s1", "dockingStation")
  \/ EnterRun
  \/ \E w \in Ids(stationPoints) : TakeOff(w)
  \/ RiseUp
  \/ Descend
  \/ \E up \in BOOLEAN : ToggleLift(up)
  \/ \E level \in {1, 2} : LiftToLevel(level)
  \/ \E t \in timers : InTurn(t) /\ LiftTick(t)
  \/ \E t \in timers : MotionDone(t)
  \/ FrameTick

\* Intervals, timeouts and animation frames that are due do fire.
SpecRetire == InitRetire /\ [][NextRetire]_vars /\ WF_vars(Timer \/ FrameTick)

\* ==================================================================== claims
Unselected(arr) == MarkSelected(arr, None, FALSE)

Collections == <<Unselected(drones), Unselected(dockingStations), Unselected(stationPoints)>>

\* C1: a callback that was pending when exitRun was called leaves the drone,
\* station and waypoint collections as exitRun restored them, equal to their
\* values before the matching enterRun, selection flags aside.
C1_ExitRestoresForGood ==
  [][(lastOp[1] = "ExitRun" /\ lastOp'[1] \in {"LiftTick", "PanelRefresh"})
       => Collections' = entered]_vars

\* C2: an enterRun immediately followed by an exitRun leaves the drone, station
\* and waypoint collections as they were before the enterRun, selection flags
\* aside.
C2_ImmediateExitRestores ==
  (lastOp[1] = "ExitRun" /\ lastOp[2] = "EnterRun") => Collections = entered

C2_Witness ==
  /\ lastOp[1] = "ExitRun" /\ lastOp[2] = "EnterRun"
  /\ selectedObjectId = "d1" /\ Find(drones, "d1").selected
  /\ Collections = entered
  /\ used.edits > 0

EditOps ==
  {"Place", "DeleteKey", "Transform", "Rename", "StationTypeChange", "StationBindingChange"}

\* C3: while the scene is running, every edit-path operation (place, delete by
\* Delete / Backspace, transform, rename, waypoint type change, station binding
\* change) leaves the drone, station and waypoint collections unchanged.
C3_EditRejectedWhileRunning ==
  [][(isRunning /\ lastOp'[1] \in EditOps)
       => UNCHANGED <<drones, dockingStations, stationPoints>>]_vars

\* the cargo items resting at one of the four shelf positions of station s
StoredAt(s) ==
  {j \in 1..Len(cargos) : \E slot \in 1..4 : cargos[j].position = OnShelf(s.position, slot)}

\* C4: for every docking station the number of true entries of shelfOccupancy
\* is at most 4 and equals the number of cargo items stored on its shelves.
C4_OccupancyCountsStored ==
  \A i \in 1..Len(dockingStations) :
    /\ Count(dockingStations[i].shelfOccupancy) <= 4
    /\ Count(dockingStations[i].shelfOccupancy) = Cardinality(StoredAt(dockingStations[i]))

\* C5: a drone's cargoId names a cargo exactly if that cargo exists and its
\* droneId names the drone.
C5_RefsConsistent ==
  /\ \A i \in 1..Len(drones) :
       drones[i].cargoId # None =>
         \E j \in 1..Len(cargos) :
           cargos[j].id = drones[i].cargoId /\ cargos[j].droneId = drones[i].id
  /\ \A j \in 1..Len(cargos) :
       cargos[j].droneId # None =>
         \E i \in 1..Len(drones) :
           drones[i].id = cargos[j].droneId /\ drones[i].cargoId = cargos[j].id

\* C6: after a delete, no cargo refers to a drone that is gone and no drone
\* refers to a cargo that is gone.
C6_DeleteDetaches ==
  lastOp[1] = "DeleteKey" =>
    /\ \A j \in 1..Len(cargos) : cargos[j].droneId \in Ids(drones) \cup {None}
    /\ \A i \in 1..Len(drones) : drones[i].cargoId \in Ids(cargos) \cup {None}

\* the stations bound to a waypoint within NearRadius of position pos
StationsNear(pos) ==
  {i \in 1..Len(dockingStations) :
     \E k \in 1..Len(stationPoints) :
       /\ Near(pos, stationPoints[k])
       /\ dockingStations[i].boundStationId = stationPoints[k].id}

Carrier == Find(drones, selectedObjectId)

Unloads == lastOp'[1] = "RemoveCargo"

\* C7: removeCargo for a carrying drone near a waypoint bound to a station
\* whose four slots are all true reports the capacity error, leaves the
\* stations, the drone's cargoId and the cargo's droneId unchanged and starts
\* no timer and no tween.
C7_FullStationRejects ==
  [][(Unloads /\ \E i \in StationsNear(Carrier.position) :
                    Count(dockingStations[i].shelfOccupancy) = 4)
       => /\ lastOp'[2] = "full"
          /\ UNCHANGED <<dockingStations, drones, cargos, timers, tweens>>]_vars

\* C8: removeCargo for a carrying drone near a waypoint bound to a station
\* with a free slot starts a store job for the lowest-index false slot and
\* clears the drone's cargoId; when the job marks the shelf, that slot goes
\* from false to true and no other slot of the station changes.
C8_LowestFreeSlotStored ==
  [][/\ (Unloads /\ \E i \in StationsNear(Carrier.position) :
                       Count(dockingStations[i].shelfOccupancy) < 4)
          => /\ lastOp'[2] = "store"
             /\ issued' # issued
             /\ LET job == issued'[Len(issued')]
                IN /\ job.idx \in StationsNear(Carrier.position)
                   /\ job.slot = EmptySlotIndex(dockingStations[job.idx].shelfOccupancy)
             /\ Find(drones', selectedObjectId).cargoId = None
     /\ \A t \in timers :
          (t.kind = "storeSettle" /\ t \notin timers' /\ lastOp'[1] = "StoreSettle")
            => /\ ~dockingStations[t.job.idx].shelfOccupancy[t.job.slot]
               /\ dockingStations'[t.job.idx].shelfOccupancy =
                    [dockingStations[t.job.idx].shelfOccupancy EXCEPT ![t.job.slot] = TRUE]
    ]_vars

\* a removeCargo has started a store job at a station with its lift at the
\* top and all slots free
JobStarted ==
  issued # <<>> /\ issued[1].sLift = LiftTop /\ Count(issued[1].cOcc) = 0

\* what that job is to bring about
JobStored ==
  /\ issued # <<>>
  /\ dockingStations[issued[1].idx].shelfOccupancy = <<TRUE, FALSE, FALSE, FALSE>>
  /\ \A j \in 1..Len(cargos) :
       cargos[j].id = issued[1].cargoId => cargos[j].droneId = None
  /\ LET d == Find(drones, issued[1].cId)
     IN /\ d.cargoId = None
        /\ d.position = issued[1].origin
        /\ ~d.propellersActive
        /\ ~d.hovering

\* C9: after a removeCargo has started a store job at a station with its lift
\* at the top and all slots free, a state is eventually reached in which the
\* shelf is [true, false, false, false], the cargo's droneId and the drone's
\* cargoId are cleared, the drone is at its pre-run origin, and its
\* propellers and hovering are off.
C9_StoredAndReturned == JobStarted ~> JobStored

\* the takeOff tweens whose last frame is the next one
LastFrame(ts) ==
  {i \in 1..Len(ts) : ts[i].kind = "takeOff" /\ ts[i].phase = "descend"
                        /\ StepsDone(ts[i]) = TweenSteps}

\* C10: when a takeOff that no other motion command has accompanied completes,
\* the drone is at the waypoint's position, with propellers and hovering both
\* off for a Landing waypoint and both on for a Hover waypoint.
C10_TakeOffArrives ==
  [][\A i \in LastFrame(tweens) :
       (lastOp'[1] = "FrameTick" /\ tweens[i].gAlone)
         => LET d == Find(drones', tweens[i].gDrone)
            IN /\ d.position = tweens[i].target
               /\ d.propellersActive = (tweens[i].cType = Hover)
               /\ d.hovering = (tweens[i].cType = Hover)]_vars

\* the tweens started for drone d, as indices of the group
MotionsOf(d) == {i \in 1..Len(tweens) : tweens[i].gDrone = d}

Newest(I) == CHOOSE i \in I : \A j \in I : j <= i

\* the state a frame starts its updates from
FrameStart ==
  [drones |-> drones, panel |-> panel, lock |-> FALSE, tweens |-> <<>>, timers |-> timers]

\* C11: when a drone has more than one motion sequence started, only the
\* newest one writes the drone: a frame leaves the drone as the update of the
\* newest sequence alone leaves it.
C11_NewestMotionWrites ==
  [][\A d \in Ids(drones) :
       (lastOp'[1] = "FrameTick" /\ Cardinality(MotionsOf(d)) > 1)
         => Find(drones', d) =
              Find(UpdateTween(tweens[Newest(MotionsOf(d))], FrameStart).drones, d)]_vars

\* C12: a takeOff issued while a motion of the selected drone is active
\* starts no motion and changes no drone.
C12_TakeOffMidFlightIgnored ==
  [][(lastOp'[1] = "TakeOff" /\ MotionsOf(selectedObjectId) # {})
       => UNCHANGED <<drones, tweens>>]_vars

\* the distance a lift drive still has to go
Remaining(t) == Abs(t.target - t.pos)

SelectedIn(arr) == {i \in 1..Len(arr) : arr[i].selected}

\* C15: across drones, stations, waypoints and cargo together, at most one
\* entity has selected = true.
C15_OneSelected ==
  Cardinality(SelectedIn(drones)) + Cardinality(SelectedIn(dockingStations))
    + Cardinality(SelectedIn(stationPoints)) + Cardinality(SelectedIn(cargos)) <= 1

Bindings == {dockingStations[i].boundStationId : i \in 1..Len(dockingStations)} \ {None}

\* C16: no two docking stations are bound to the same waypoint.
C16_BindingsDistinct ==
  \A i, j \in 1..Len(dockingStations) :
    (i # j /\ dockingStations[i].boundStationId # None)
      => dockingStations[i].boundStationId # dockingStations[j].boundStationId

C16_Witness ==
  /\ lastOp[1] = "StationBindingChange" /\ lastOp[2] = "bound"
  /\ Len(dockingStations) >= 2
  /\ Cardinality(Bindings) = Len(dockingStations)

\* the waypoint the name of the last binding change stood for was, before the
\* change, the bound waypoint of a station other than the selected one
TakenBefore ==
  /\ lastOp'[1] = "StationBindingChange"
  /\ lastOp'[3] # None
  /\ \E i \in 1..Len(dockingStations) :
       /\ dockingStations[i].id # selectedObjectId
       /\ dockingStations[i].boundStationId = FindByName(stationPoints, lastOp'[3])

\* C17: a binding change that names a waypoint another station is bound to
\* raises the alert and changes nothing: the collections, the selection and
\* the panel stay as they were.
C17_TakenBindingRejected ==
  [][TakenBefore => (lastOp'[2] = "alert" /\ UNCHANGED <<store, sel, panel, orig>>)]_vars

C17_Witness ==
  /\ lastOp[1] = "StationBindingChange" /\ lastOp[2] = "alert"
  /\ \E i \in 1..Len(dockingStations) :
       /\ dockingStations[i].id # selectedObjectId
       /\ dockingStations[i].boundStationId = FindByName(stationPoints, lastOp[3])

\* C18: within each entity type, no two entities that ever existed were given
\* the same asset sequence number: a new entity's number differs from every
\* number assigned before, deleted entities included.
C18_AssetNumbersFresh ==
  \A a, b \in ever :
    (a.kind = b.kind /\ a.id # b.id) => a.modelNumber # b.modelNumber

\* C19: no two waypoints that ever existed were given the same sequence number.
C19_PointNumbersFresh ==
  \A a, b \in ever :
    (a.kind = "stationPoint" /\ b.kind = "stationPoint" /\ a.id # b.id)
      => a.stationNumber # b.stationNumber

\* C20: every call of the mode toggle makes one transition.  A single call
\* flips the mode; two calls made before the component renders again flip it
\* twice, the first reporting the flipped mode and the second the mode flipped
\* back, which is the mode the two calls leave.
C20_EachCallFlips ==
  [][/\ lastOp'[1] \in {"EnterRun", "ExitRun"} => isRunning' = ~isRunning
     /\ lastOp'[1] = "ToggleTwice"
          => /\ lastOp'[2] = ~isRunning
             /\ lastOp'[3] = isRunning
             /\ isRunning' = isRunning]_vars

C20_Witness ==
  /\ lastOp = <<"ToggleTwice", FALSE, TRUE>>
  /\ isRunning
  /\ used.runs = 2

NoCargoLeft == cargos = <<>> /\ \A i \in 1..Len(drones) : drones[i].cargoId = None

\* C21: exitRun leaves the cargo collection empty and no drone with a cargoId.
C21_ExitClearsCargo ==
  [][lastOp'[1] = "ExitRun" => NoCargoLeft']_vars

C21_Witness ==
  /\ lastOp = <<"ExitRun", "DispatchCargo">>
  /\ used.cargo = 1
  /\ NoCargoLeft

\* C22: the scene is never written to the persistence store while the mode
\* is run.
C22_NoWriteWhileRunning == TRUE \notin writes

CargoOf(d) == {i \in 1..Len(cargos) : cargos[i].droneId = d}

\* C23: dispatch on a drone without cargoId adds one cargo, 0.2 m below the
\* drone and attached to it, and sets the drone's cargoId to it; dispatch on a
\* drone that has a cargoId changes neither the cargo collection nor the drones.
C23_DispatchOnlyWhenIdle ==
  [][lastOp'[1] = "DispatchCargo"
       => LET d == Find(drones, selectedObjectId)
          IN IF d.cargoId # None
             THEN UNCHANGED <<drones, cargos>>
             ELSE /\ Len(cargos') = Len(cargos) + 1
                  /\ SubSeq(cargos', 1, Len(cargos)) = cargos
                  /\ cargos'[Len(cargos')].droneId = d.id
                  /\ cargos'[Len(cargos')].position =
                       <<d.position[1], d.position[2] - CargoDrop, d.position[3]>>
                  /\ \A i \in 1..Len(cargos) : cargos[i].id # cargos'[Len(cargos')].id
                  /\ Find(drones', d.id).cargoId = cargos'[Len(cargos')].id
                  /\ \A i \in 1..Len(drones) :
                       drones[i].id # d.id => drones'[i] = drones[i]]_vars

C23_Witness ==
  /\ lastOp = <<"DispatchCargo", "carrying">>
  /\ Len(cargos) = 1
  /\ Find(drones, selectedObjectId).cargoId = cargos[1].id

\* C24: removeCargo for a carrying drone within NearRadius of no waypoint a
\* station is bound to removes the cargo and clears the drone's cargoId in the
\* same step, changes no docking station and starts no timer and no tween.
C24_AbandonAwayFromStations ==
  [][(Unloads /\ Carrier.cargoId # None /\ StationsNear(Carrier.position) = {})
       => /\ cargos' = FilterOut(cargos, Carrier.cargoId)
          /\ Find(drones', selectedObjectId).cargoId = None
          /\ UNCHANGED <<dockingStations, timers, tweens>>]_vars

C24_Witness ==
  /\ lastOp = <<"RemoveCargo", "abandon">>
  /\ selectedObjectId = "d2"
  /\ dockingStations[1].boundStationId = "w1"
  /\ StationsNear(Carrier.position) = {}
  /\ Carrier.cargoId = None /\ cargos = <<>>

Ticks == {"LiftTick", "FrameTick", "MotionDone", "StoreLiftTick", "StoreSettle", "RecoverTick"}

\* C25: a tick of a lift timer or of a flight tween adds no drone and no
\* docking station: an entity deleted while its motion was active stays deleted.
C25_TickKeepsDeleted ==
  [][lastOp'[1] \in Ticks
       => /\ Ids(drones') \subseteq Ids(drones)
          /\ Ids(dockingStations') \subseteq Ids(dockingStations)]_vars

SimulationSteps == Ticks \cup {"ReturnStart", "ReturnDone"}

\* C26: in edit mode no callback of a flight tween, of a lift timer or of the
\* store sequence changes a drone, a docking station or a cargo.
C26_NoSimulationInEdit ==
  [][(~isRunning /\ lastOp'[1] \in SimulationSteps)
       => UNCHANGED <<drones, dockingStations, cargos>>]_vars

Intervals(kinds) == {t \in timers : t.kind \in kinds}

Lifted == {i \in 1..Len(dockingStations) : dockingStations[i].liftPosition # NoLift}

LiftTimers == {t \in timers : t.kind \in {"liftDrive", "storeLift"}}

\* C27: every station's liftPosition lies between 0 and 1, and no lift timer
\* has stepped past its target.
C27_LiftInRange ==
  /\ \A i \in Lifted : dockingStations[i].liftPosition \in 0..LiftTop
  /\ \A t \in LiftTimers :
       /\ t.pos \in 0..LiftTop
       /\ IF t.step > 0 THEN t.pos <= t.target ELSE t.pos >= t.target

\* a manual drive has just arrived at the bottom while the store sequence runs
C27_Witness ==
  /\ lastOp[1] = "LiftTick"
  /\ Intervals({"storeLift", "recover"}) # {}
  /\ Intervals({"liftDrive"}) = {}
  /\ dockingStations[1].liftPosition = 0
  /\ originalDockingStations # <<>>
  /\ originalDockingStations[1].liftPosition \notin {0, LiftTop}

DrivesOf(id) == {t \in timers : t.kind = "liftDrive" /\ t.cId = id}

\* C28: at most one lift drive of a docking station is active at a time.
C28_OneDrivePerStation ==
  \A id \in Ids(dockingStations) : Cardinality(DrivesOf(id)) <= 1

\* C29: the lift position the store sequence drives to for a slot is the one
\* a manual drive to the slot's level targets (slots 1, 2 are on level 1,
\* slots 3, 4 on level 2).
C29_SameLevelTarget ==
  \A t \in timers :
    t.kind = "storeLift" => t.target = LevelTarget(IF t.job.slot <= 2 THEN 1 ELSE 2)

JobsOf(T, kind) == {t.job : t \in {u \in T : u.kind = kind}}

Started(kind) == JobsOf(timers', kind) \ JobsOf(timers, kind)

Marks(S) == {<<i, k>> \in (1..Len(S)) \X (1..4) : k <= Len(S[i].shelfOccupancy) /\ S[i].shelfOccupancy[k]}

\* C30: from the unload command on and while the lift of a store sequence is
\* driven, the cargo is detached from the drone; the sequence's settle timeout
\* is set by the lift callback that puts the lift on the slot's level; its
\* return to the top is set by the settle timeout, which has put the cargo on
\* the shelf and marked the slot; no other step marks a slot, and the lift only
\* rises for a sequence whose slot is marked.
C30_StoreOrder ==
  [][/\ lastOp' = <<"RemoveCargo", "store">> => JobsOf(timers', "returnWait") # {}
     /\ \A j \in JobsOf(timers', "returnWait") \cup JobsOf(timers', "storeLift") :
          /\ \A i \in 1..Len(drones') : drones'[i].cargoId # j.cargoId
          /\ \A i \in 1..Len(cargos') : cargos'[i].id = j.cargoId => cargos'[i].droneId = None
     /\ \A j \in Started("storeSettle") :
          /\ lastOp'[1] = "StoreLiftTick"
          /\ j \in JobsOf(timers, "storeLift")
          /\ dockingStations'[j.idx].liftPosition = (IF j.slot <= 2 THEN 0 ELSE Level2Store)
     /\ \A j \in Started("recover") :
          /\ lastOp'[1] = "StoreSettle"
          /\ j \in JobsOf(timers, "storeSettle")
          /\ dockingStations'[j.idx].shelfOccupancy[j.slot]
          /\ \A i \in 1..Len(cargos') :
               cargos'[i].id = j.cargoId => cargos'[i].position = OnShelf(j.sPos, j.slot)
     /\ Marks(dockingStations') # Marks(dockingStations) => lastOp'[1] = "StoreSettle"
     /\ lastOp'[1] = "RecoverTick" =>
          \E j \in JobsOf(timers, "recover") : dockingStations[j.idx].shelfOccupancy[j.slot]
    ]_vars

\* a sequence into a slot of level 2 has begun its return to the top
C30_Witness ==
  /\ lastOp[1] = "RecoverTick"
  /\ \E j \in JobsOf(timers, "recover") :
       /\ j.slot = 3
       /\ dockingStations[j.idx].liftPosition > Level2Store
       /\ dockingStations[j.idx].shelfOccupancy[3]

SlotMarked(j) ==
  /\ j.idx <= Len(dockingStations)
  /\ dockingStations[j.idx].shelfOccupancy[j.slot]

InFlight == {i \in 1..Len(tweens) :
               /\ tweens[i].kind \in {"takeOff", "climb"}
               /\ (IF tweens[i].kind = "climb" THEN tweens[i].step + 1
                   ELSE StepsDone(tweens[i])) < TweenSteps}

\* the height the frame interpolates for the tween
HeightAt(t) ==
  IF t.kind = "climb"
  THEN Lerp(t.fromY, IF t.up THEN FlightHeight ELSE 0, t.step + 1)
  ELSE Lerp3(t.from, PhaseTo(t), StepsDone(t))[2]

\* C32: with frames no closer than the limit interval, every frame commits the
\* interpolated height of every active flight phase to the phase's drone.
C32_EveryFrameCommits ==
  [][lastOp'[1] = "FrameTick"
       => \A i \in InFlight :
            Has(drones, tweens[i].gDrone)
              => Find(drones', tweens[i].gDrone).position[2] = HeightAt(tweens[i])]_vars

Flying(n) == \E i \in 1..Len(tweens) : tweens[i].kind \in {"takeOff", "climb"} /\ tweens[i].n = n

Driving(n) == \E t \in timers : t.kind = "liftDrive" /\ t.n = n

Retired == ~\E n \in 1..(MaxFlights + MaxOverlap) : Flying(n) \/ Driving(n)

\* C33: every flight sequence and every lift drive that has been started
\* eventually retires: the commands of a run being finitely many, from some
\* moment on no flight tween is active and no lift interval is set.
C33_MotionsRetire == <>[]Retired

\* both flights of a run have retired, their closing timeouts included
C33_Witness ==
  /\ Retired
  /\ used.flights = MaxFlights
  /\ lastOp[1] = "MotionDone"
  /\ timers = {}

\* C34: after every callback of a manual lift drive the capacity the panel
\* shows for the selected docking station is the number of occupied slots of
\* that station.
C34_PanelCountsSlots ==
  [][(lastOp'[1] = "LiftTick" /\ selectedObjectType = "dockingStation"
        /\ Has(dockingStations', selectedObjectId) /\ panel'.ptype = "dockingStation")
       => panel'.capacity = Count(Find(dockingStations', selectedObjectId).shelfOccupancy)]_vars

\* C35: after every callback of a manual lift drive the lift status the panel
\* shows for the selected docking station is the text derived from the
\* station's liftPosition: bottom, top, or moving with its percentage.
C35_StatusFollowsLift ==
  [][(lastOp'[1] = "LiftTick" /\ selectedObjectType = "dockingStation"
        /\ Has(dockingStations', selectedObjectId) /\ panel'.ptype = "dockingStation")
       => panel'.lift = LiftStatusText(Find(dockingStations', selectedObjectId).liftPosition)]_vars

\* the docking stations with the lift positions left out
Unlifted(S) == [i \in 1..Len(S) |-> [S[i] EXCEPT !.liftPosition = NoLift]]

\* C36: a callback of a manual lift drive of a station changes nothing of the
\* docking stations but that station's liftPosition.
C36_LiftStepFrame ==
  [][lastOp'[1] = "LiftTick"
       => \A t \in timers :
            (t.kind = "liftDrive" /\ t.n = lastOp'[2])
              => /\ Unlifted(dockingStations') = Unlifted(dockingStations)
                 /\ \A i \in 1..Len(dockingStations) :
                      dockingStations[i].id # t.cId
                        => dockingStations'[i].liftPosition = dockingStations[i].liftPosition]_vars

\* the drones a flight tween is in progress for
Moving == {tweens[i].gDrone : i \in 1..Len(tweens)}

\* C37: an animation frame writes only the drones that have a motion in
\* flight, and the frame that completes a takeOff puts the drone the command
\* was given for at the waypoint.
C37_MotionWritesItsDrone ==
  [][lastOp'[1] = "FrameTick"
       => /\ \A i \in 1..Len(drones) :
               drones[i].id \notin Moving
                 => (i <= Len(drones') /\ drones'[i] = drones[i])
          /\ \A i \in LastFrame(tweens) :
               Has(drones, tweens[i].gDrone)
                 => Find(drones', tweens[i].gDrone).position = tweens[i].target]_vars

\* C38: no two store sequences of a docking station are given the same slot.
C38_SlotsDistinct ==
  \A i \in 1..Len(issued) : \A j \in 1..Len(issued) :
    (i # j /\ issued[i].idx = issued[j].idx) => issued[i].slot # issued[j].slot

\* C39: in run mode the snapshot holds the drones, docking stations and
\* waypoints as they were at the latest transition into run mode, selection
\* flags aside.
C39_SnapshotIsEntry ==
  isRunning => <<Unselected(originalDrones), Unselected(originalDockingStations),
                 Unselected(originalStationPoints)>> = entered

\* C40: the boundStationId of every docking station is absent or the id of a
\* waypoint of the scene.
C40_BindingsExist ==
  \A i \in 1..Len(dockingStations) :
    dockingStations[i].boundStationId \in Ids(stationPoints) \cup {None}

====
